---- MODULE Spec2Model ----
(***************************************************************************)
(* graph-service: the HMAC-signed NDJSON ingestion endpoints, the          *)
(* relational store (croutons, triples, outbox_graph_events) with its      *)
(* uniqueness constraints and capture triggers, and the migrations that    *)
(* write to it.                                                            *)
(*                                                                         *)
(* Text values are sequences of tokens (so that concatenation, splitting   *)
(* on "\n" and trailing-newline handling are computed, not assumed); SQL   *)
(* NULL and an absent / falsy JSON field are the value NULL.               *)
(***************************************************************************)
EXTENDS Integers, Sequences, FiniteSets, TLC

VARIABLES
    croutons,      \* rows of table croutons (Fact)
    triples,       \* rows of table triples
    outbox,        \* rows of table outbox_graph_events
    outbox_seq,    \* last value handed out by the BIGSERIAL of outbox_graph_events.id
    applied,       \* migrations applied so far (subset of {"005_backfill", "008_outbox"})
    resp,          \* the last request and the response it got
    vBody,         \* SpecHmac: the request body given to verifyHmacHeader
    vHeader,       \* SpecHmac: the X-Signature header given to verifyHmacHeader
    vOut,          \* SpecHmac: "pending", or what verifyHmacHeader did
    hIn,           \* SpecHash: the two records given to the content hasher
    hOut,          \* SpecHash: their hashes, and what /import answered the pair
    conn,          \* SpecConc: per pooled connection, the /import request it serves
    held,          \* SpecDrain: per drain worker, the events delivered to it
    tag,           \* SpecDrain: the command tag psql printed for the last requeue
    source_participation,  \* rows of table source_tracking.source_participation
    graph,         \* SpecGraph: the last response of GET /api/graph
    wire,          \* SpecConc: per pooled connection, what the handler did with it
    migrate,       \* SpecMigrate: the migration runner and what it left in the store
    job,           \* SpecJob: table job_runs and the run of GhcndDailyIngestJob
    rate           \* SpecRate: requestCounts of the precog router, and its clock

\* the graph store, its handlers and its drain workers
baseVars == <<croutons, triples, outbox, outbox_seq, applied, resp, vBody, vHeader, vOut,
              hIn, hOut, conn, held, tag, source_participation, graph>>

\* the state of the scripts and services beside the graph store
runVars == <<migrate, job, rate>>

\* the state kept outside the tables and the handlers above
svcVars == <<wire, runVars>>

vars == <<croutons, triples, outbox, outbox_seq, applied, resp, vBody, vHeader, vOut,
          hIn, hOut, conn, held, tag, source_participation, graph, svcVars>>

----------------------------------------------------------------------------
(* Bounds of the model *)

\* longest request body, in segments between newlines
MaxSegs == 2
\* longest body of /api/import and /v1/streams/ingest, in segments
MaxFeedSegs == 1
\* most rows the croutons table is let grow to
MaxFacts == 2
\* most values the outbox id sequence hands out
MaxSeq == 3
\* bytes of a digest (of the 32 of SHA-256; every byte is modelled the same way)
DigestLen == 2
\* longest body given to verifyHmacHeader, in characters
MaxBody == 2
\* most disjoint subject-object pairs in a triples table read by GET /api/graph
MaxPairs == 250

(* Program constants *)
MAX_LINE_BYTES == 100000
\* the caps of GET /api/graph
maxNodes == 500
maxLinks == 1000

NULL == <<"NULL">>

Max(S) == CHOOSE m \in S : \A x \in S : x <= m

----------------------------------------------------------------------------
(* Request bodies.  A body is a string: a sequence of chunks, each either  *)
(* the newline character or a piece of text without newline (a JSON        *)
(* object, the JSON literal null, text that is no JSON, or text longer     *)
(* than MAX_LINE_BYTES).  A request whose body the text parser did not     *)
(* read has req.body = {} (not a string).                                  *)

NL == [kind |-> "nl"]

\* the keys of a JSON object come in the order the sender wrote them; JSON.parse
\* keeps that order
TripleKeys == <<"subject", "predicate", "object">>
ObjKeys == <<"crouton_id", "source_url", "text", "triple">>

NoTriple ==
    [present |-> FALSE, subject |-> NULL, predicate |-> NULL, object |-> NULL,
     keys |-> TripleKeys]
TripleKeyed(s, p, o, keys) ==
    [present |-> TRUE, subject |-> s, predicate |-> p, object |-> o, keys |-> keys]
Triple(s, p, o) == TripleKeyed(s, p, o, TripleKeys)

ObjKeyed(cid, url, text, triple, keys) ==
    [kind |-> "obj", crouton_id |-> cid, source_url |-> url, text |-> text,
     triple |-> triple, keys |-> keys]
Obj(cid, url, text, triple) == ObjKeyed(cid, url, text, triple, ObjKeys)

BadChunk  == [kind |-> "bad"]
BigChunk  == [kind |-> "big"]
NullChunk == [kind |-> "null"]

T_AB == Triple(<<"A">>, <<"offers">>, <<"B">>)
T_Partial == Triple(<<"A">>, <<"offers">>, NULL)

O2 == Obj(<<"c1">>, <<"u1">>, <<"t2">>, T_AB)
O3 == Obj(<<"c2">>, <<"u2">>, <<"t1">>, T_AB)
O4 == Obj(<<"c1">>, <<"u2">>, <<"t2">>, T_Partial)
O5 == Obj(NULL, NULL, <<"t1">>, NoTriple)

\* what one line of an /import body may be
ImportChunks == {BadChunk, BigChunk, NullChunk, O2, O3, O4, O5}

\* the lines that tell stores apart: the records, and one line that fails
StoreChunks == {BadChunk, O2, O3, O4}

StrBody(chunks) == [isString |-> TRUE, chunks |-> chunks]
NoBody == [isString |-> FALSE, chunks |-> <<>>]

\* String.prototype.endsWith("\n")
EndsWithNL(s) == Len(s) > 0 /\ s[Len(s)] = NL

\* body.slice(0, -1)
DropLast(s) == SubSeq(s, 1, Len(s) - 1)

\* the body with one trailing newline toggled
ToggleNL(s) == IF EndsWithNL(s) THEN DropLast(s) ELSE Append(s, NL)

----------------------------------------------------------------------------
(* HMAC and hex.  HMAC-SHA256 is modelled as collision-free: the digest of *)
(* (key, message) is DigestLen bytes that no other (key, message) yields.  *)
(* A hex string is a sequence of characters; a character is a hex digit    *)
(* (one half of a byte of some digest) or a character that is no hex       *)
(* digit.                                                                  *)

HMAC_SECRET == "dev-secret"
OtherKey == "other-key"

HexDigit(key, msg, pos) == [hex |-> TRUE, key |-> key, msg |-> msg, pos |-> pos]
NonHex == [hex |-> FALSE, key |-> "", msg |-> <<>>, pos |-> 0]

\* crypto.createHmac("sha256", key).update(body).digest("hex")
HmacHexWith(key, body) == [i \in 1 .. 2 * DigestLen |-> HexDigit(key, body, i)]

hmacHex(body) == HmacHexWith(HMAC_SECRET, body)

\* Buffer.from(s, "hex"): the bytes of the longest prefix of s made of whole
\* pairs of hex digits; decoding stops at the first pair holding another
\* character, and a trailing single character is dropped.
RECURSIVE HexDecodeFrom(_, _)
HexDecodeFrom(s, i) ==
    IF 2 * i > Len(s) THEN <<>>
    ELSE IF ~s[2 * i - 1].hex \/ ~s[2 * i].hex THEN <<>>
    ELSE <<(<<s[2 * i - 1], s[2 * i]>>)>> \o HexDecodeFrom(s, i + 1)

BufferFromHex(s) == HexDecodeFrom(s, 1)

\* X-Signature: absent (req.get gives undefined, so "") or prefix + hex text
Header(prefix, hex) == [prefix |-> prefix, hex |-> hex]
NoHeader == Header("", <<>>)

\* "true" / "false": what it returns; "throws": hmacHex(body) raised a
\* TypeError (body is no string), which happens outside the try block.
verifyHmacHeader(header, body) ==
    IF header.prefix # "sha256=" THEN "false"
    ELSE IF ~body.isString THEN "throws"
    ELSE LET got  == BufferFromHex(header.hex)
             exp  == BufferFromHex(hmacHex(body.chunks))
             altB == BufferFromHex(hmacHex(ToggleNL(body.chunks)))
         IN  IF (Len(got) = Len(exp) /\ got = exp) \/ (Len(got) = Len(altB) /\ got = altB)
             THEN "true" ELSE "false"

----------------------------------------------------------------------------
(* The store.  A database state is a record of the three tables, the       *)
(* outbox id sequence and whether the capture triggers exist.  A statement *)
(* gives [db, rowCount, err]: err is a constraint violation, which raises  *)
(* in the client and leaves db as it was.                                  *)

Db(c, t, o, s, trg) == [croutons |-> c, triples |-> t, outbox |-> o, seq |-> s, trg |-> trg]

Ok(db, n) == [db |-> db, rowCount |-> n, err |-> FALSE]
\* a constraint violation that is taken for a conflict and skipped
RaiseAsSkip(db) == [db |-> db, rowCount |-> 0, err |-> FALSE]
Raise(db) == [db |-> db, rowCount |-> 0, err |-> TRUE]

\* uuid_generate_v4(): an id no row of the table has
FreshId(rows) == IF rows = {} THEN 1 ELSE Max({r.id : r \in rows}) + 1

\* an event written as already claimed
OutboxRowClaimed(id, type, payload) ==
    [id |-> id, event_type |-> type, payload |-> payload, occurred_at |-> id,
     status |-> "processing", attempts |-> 1, error |-> NULL]

\* INSERT INTO outbox_graph_events(event_type, payload): the other columns
\* take their defaults (occurred_at, DEFAULT now(), is a logical time: the
\* value of the id sequence when the row was written)
OutboxRow(id, type, payload) ==
    [id |-> id, event_type |-> type, payload |-> payload, occurred_at |-> id,
     status |-> "pending", attempts |-> 0, error |-> NULL]

\* a Fact trigger that writes the event type 'fact.insert'
fn_outbox_factlet_as_fact(db, NewRow) ==
    IF ~db.trg THEN db
    ELSE [db EXCEPT
            !.outbox = @ \cup {OutboxRow(db.seq + 1, "fact.insert",
                                  [id |-> NewRow.id, crouton_id |-> NewRow.crouton_id,
                                   source_url |-> NewRow.source_url, text |-> NewRow.text,
                                   corpus_id |-> NewRow.corpus_id])},
            !.seq = @ + 1]

\* a Fact trigger whose event takes the last id handed out instead of a new one
fn_outbox_factlet_reuses_id(db, NewRow) ==
    IF ~db.trg THEN db
    ELSE [db EXCEPT
            !.outbox = @ \cup {OutboxRow(Max({db.seq, 1}), "factlet.insert",
                                  [id |-> NewRow.id, crouton_id |-> NewRow.crouton_id,
                                   source_url |-> NewRow.source_url, text |-> NewRow.text,
                                   corpus_id |-> NewRow.corpus_id])}]

\* fn_outbox_factlet_insert, run by trg_outbox_factlet_insert AFTER INSERT ON croutons
fn_outbox_factlet_insert(db, NewRow) ==
    IF ~db.trg THEN db
    ELSE [db EXCEPT
            !.outbox = @ \cup {OutboxRow(db.seq + 1, "factlet.insert",
                                  [id |-> NewRow.id, crouton_id |-> NewRow.crouton_id,
                                   source_url |-> NewRow.source_url, text |-> NewRow.text,
                                   corpus_id |-> NewRow.corpus_id])},
            !.seq = @ + 1]

\* fn_outbox_triple_insert, run by trg_outbox_triple_insert AFTER INSERT ON triples
fn_outbox_triple_insert(db, NewRow) ==
    IF ~db.trg THEN db
    ELSE [db EXCEPT
            !.outbox = @ \cup {OutboxRow(db.seq + 1, "triple.insert",
                                  [id |-> NewRow.id, subject |-> NewRow.subject,
                                   predicate |-> NewRow.predicate, object |-> NewRow.object,
                                   evidence_crouton_id |-> NewRow.evidence_crouton_id])},
            !.seq = @ + 1]

CroutonRow(id, v) ==
    [id |-> id, crouton_id |-> v.crouton_id, source_url |-> v.source_url,
     source_hash |-> v.source_hash, corpus_id |-> v.corpus_id,
     triple |-> v.triple, text |-> v.text]

\* a croutons table without unique constraints
NoCroutonKeys(others, r) == FALSE

\* croutons.crouton_id TEXT UNIQUE and the unique indexes on source_hash:
\* whether row r could not be stored beside the rows `others`
ViolatesCroutonKeys(others, r) ==
    \/ r.crouton_id # NULL /\ \E x \in others : x.crouton_id = r.crouton_id
    \/ r.source_hash # NULL /\ \E x \in others : x.source_hash = r.source_hash

\* a plain INSERT INTO croutons: a taken source_hash raises
InsertCroutonNoArbiter(db, v) ==
    LET NewRow == CroutonRow(FreshId(db.croutons), v) IN
    IF ViolatesCroutonKeys(db.croutons, NewRow) THEN Raise(db)
    ELSE Ok(fn_outbox_factlet_insert([db EXCEPT !.croutons = @ \cup {NewRow}], NewRow), 1)

\* ON CONFLICT (source_hash) DO UPDATE: a taken source_hash overwrites the row
InsertCroutonHashUpdate(db, v) ==
    IF v.source_hash # NULL /\ \E x \in db.croutons : x.source_hash = v.source_hash
    THEN Ok([db EXCEPT !.croutons =
                {IF x.source_hash = v.source_hash
                 THEN [x EXCEPT !.crouton_id = v.crouton_id, !.corpus_id = v.corpus_id]
                 ELSE x : x \in @}], 1)
    ELSE LET NewRow == CroutonRow(FreshId(db.croutons), v) IN
         IF ViolatesCroutonKeys(db.croutons, NewRow) THEN Raise(db)
         ELSE Ok(fn_outbox_factlet_insert([db EXCEPT !.croutons = @ \cup {NewRow}], NewRow), 1)

\* INSERT INTO croutons (...) VALUES (...) ON CONFLICT (source_hash) DO NOTHING RETURNING id
InsertCroutonByHash(db, v) ==
    IF v.source_hash # NULL /\ \E x \in db.croutons : x.source_hash = v.source_hash
    THEN Ok(db, 0)
    ELSE LET NewRow == CroutonRow(FreshId(db.croutons), v) IN
         IF ViolatesCroutonKeys(db.croutons, NewRow) THEN Raise(db)
         ELSE Ok(fn_outbox_factlet_insert([db EXCEPT !.croutons = @ \cup {NewRow}], NewRow), 1)

\* INSERT INTO croutons (...) VALUES (...) ON CONFLICT (crouton_id) DO UPDATE SET
\*   source_url, text, triple, source_hash = EXCLUDED.*
UpsertCroutonById(db, v) ==
    IF v.crouton_id # NULL /\ \E x \in db.croutons : x.crouton_id = v.crouton_id
    THEN LET old == CHOOSE x \in db.croutons : x.crouton_id = v.crouton_id
             new == [old EXCEPT !.source_url = v.source_url, !.text = v.text,
                                !.triple = v.triple, !.source_hash = v.source_hash]
         IN  IF ViolatesCroutonKeys(db.croutons \ {old}, new) THEN Raise(db)
             ELSE Ok([db EXCEPT !.croutons = (@ \ {old}) \cup {new}], 1)
    ELSE LET NewRow == CroutonRow(FreshId(db.croutons), v) IN
         IF ViolatesCroutonKeys(db.croutons, NewRow) THEN Raise(db)
         ELSE Ok(fn_outbox_factlet_insert([db EXCEPT !.croutons = @ \cup {NewRow}], NewRow), 1)

TripleRow(id, s, p, o, ev) ==
    [id |-> id, subject |-> s, predicate |-> p, object |-> o, evidence_crouton_id |-> ev]

SameSPO(x, s, p, o) == x.subject = s /\ x.predicate = p /\ x.object = o

\* an insert that, on conflict, overwrites the evidence of the stored row
InsertTripleLastWins(db, s, p, o, ev) ==
    IF \E x \in db.triples : SameSPO(x, s, p, o)
    THEN Ok([db EXCEPT !.triples =
                {IF SameSPO(x, s, p, o) THEN [x EXCEPT !.evidence_crouton_id = ev] ELSE x :
                    x \in @}], 1)
    ELSE LET NewRow == TripleRow(FreshId(db.triples), s, p, o, ev) IN
         Ok(fn_outbox_triple_insert([db EXCEPT !.triples = @ \cup {NewRow}], NewRow), 1)

\* INSERT INTO triples (subject, predicate, object, evidence_crouton_id) VALUES (...)
\*   ON CONFLICT (subject, predicate, object) DO NOTHING
InsertTriple(db, s, p, o, ev) ==
    IF \E x \in db.triples : SameSPO(x, s, p, o) THEN Ok(db, 0)
    ELSE LET NewRow == TripleRow(FreshId(db.triples), s, p, o, ev) IN
         Ok(fn_outbox_triple_insert([db EXCEPT !.triples = @ \cup {NewRow}], NewRow), 1)

\* A transaction: the state at BEGIN and the state the statements built.
\* The id sequence is not transactional: a value handed out is never reused.
Begin(db) == [base |-> db, work |-> db]
\* a ROLLBACK that keeps what the statements built
RollbackKeeps(tx) == tx.work
\* a commit that also purges the delivered events
CommitPurgesDone(tx) == [tx.work EXCEPT !.outbox = {e \in @ : e.status # "done"}]
Commit(tx) == tx.work
Rollback(tx) == [tx.base EXCEPT !.seq = tx.work.seq]

----------------------------------------------------------------------------
(* POST /import (server.js): the Ingestion Coordinator *)

\* raw.split("\n")
RECURSIVE SplitFrom(_, _, _)
SplitFrom(s, i, cur) ==
    IF i > Len(s) THEN <<cur>>
    ELSE IF s[i] = NL THEN <<cur>> \o SplitFrom(s, i + 1, <<>>)
    ELSE SplitFrom(s, i + 1, Append(cur, s[i]))

Split(s) == SplitFrom(s, 1, <<>>)

\* .filter(Boolean): the empty string is falsy
NonEmpty(seg) == seg # <<>>
FilterBoolean(segs) == SelectSeq(segs, NonEmpty)

ChunkLength(c) == IF c.kind = "big" THEN MAX_LINE_BYTES + 1 ELSE 1

\* line.length
RECURSIVE LineLength(_)
LineLength(line) ==
    IF line = <<>> THEN 0 ELSE ChunkLength(Head(line)) + LineLength(Tail(line))

\* whether JSON.parse(line) returns (a line is JSON when it is one JSON value)
ParsesAsJson(line) == Len(line) = 1 /\ line[1].kind \in {"obj", "null", "Factlet", "Triple"}

\* JSON.stringify(obj.triple): the keys that have a value, in the object's key order
JsonField(key, v) == IF v = NULL THEN <<>> ELSE <<key, ":">> \o v \o <<",">>
\* JSON.stringify writes the keys of the object in their order
JsonStringifyTriple(t) ==
    <<"{">> \o JsonField(t.keys[1], t[t.keys[1]]) \o JsonField(t.keys[2], t[t.keys[2]])
            \o JsonField(t.keys[3], t[t.keys[3]]) \o <<"}">>

\* the value a JSONB column keeps of a triple: the order of the keys is lost
Jsonb(t) == [t EXCEPT !.keys = TripleKeys]

\* crypto.createHash("sha256").update(s).digest("hex"), collision-free
Sha256Hex(s) == <<"sha256">> \o s

\* source_hash of a record: sha256(source_url + "|" + text + "|" + JSON of triple)
SourceHash(obj) ==
    LET tripleStr == IF obj.triple.present THEN JsonStringifyTriple(obj.triple) ELSE <<>>
        text == IF obj.text = NULL THEN <<>> ELSE obj.text
    IN  Sha256Hex(obj.source_url \o <<"|">> \o text \o <<"|">> \o tripleStr)

ImportVals(obj) ==
    [crouton_id |-> obj.crouton_id, source_url |-> obj.source_url,
     source_hash |-> SourceHash(obj), corpus_id |-> NULL,
     triple |-> Jsonb(obj.triple),
     text |-> IF obj.text = <<>> THEN NULL ELSE obj.text]    \* obj.text || null

\* a test of a field the record never has
HasTriplesTypo(obj) == FALSE

\* obj.triple && obj.triple.subject && obj.triple.predicate && obj.triple.object
HasFullTriple(obj) ==
    /\ obj.triple.present
    /\ obj.triple.subject # NULL /\ obj.triple.predicate # NULL /\ obj.triple.object # NULL

\* a response whose total is the number of accepted records
ResultTotalAccepted(status, error, db, accepted, skipped, total, parsed) ==
    [status |-> status, error |-> error, db |-> db, accepted |-> accepted,
     skipped |-> skipped, total |-> accepted, parsed |-> parsed]

\* what a handler did: the response (status 0: none was sent), the store it
\* left, and how many lines it gave to JSON.parse
Result(status, error, db, accepted, skipped, total, parsed) ==
    [status |-> status, error |-> error, db |-> db, accepted |-> accepted,
     skipped |-> skipped, total |-> total, parsed |-> parsed]

\* whether the error text of a response carries text of the line that failed:
\* only "invalid JSON line: " + line.slice(0, 120) + "..." does
ErrorNamesLine(error) == error = "invalid JSON line"

\* the for loop over lines, inside the transaction; i is the line at hand
RECURSIVE ImportLoop(_, _, _, _, _)
ImportLoop(tx, lines, i, accepted, skipped) ==
    IF i > Len(lines)
    THEN Result(200, "", Commit(tx), accepted, skipped, Len(lines), i - 1)
    ELSE
    LET line == lines[i] IN
    IF LineLength(line) > MAX_LINE_BYTES
    THEN Result(413, "line too large", Rollback(tx), 0, 0, 0, i - 1)
    ELSE IF ~ParsesAsJson(line)
    THEN Result(400, "invalid JSON line", Rollback(tx), 0, 0, 0, i)
    ELSE
    LET obj == line[1] IN
    IF obj.kind = "null"
    THEN \* obj.source_url on null: TypeError, caught by the outer catch
         Result(500, "import_failed", Rollback(tx), 0, 0, 0, i)
    ELSE IF obj.kind # "obj" \/ obj.source_url = NULL
    THEN Result(400, "source_url is required", Rollback(tx), 0, 0, 0, i)
    ELSE
    LET ins == InsertCroutonByHash(tx.work, ImportVals(obj)) IN
    IF ins.err
    THEN Result(500, "import_failed", Rollback(tx), 0, 0, 0, i)
    ELSE IF ins.rowCount = 0
    THEN ImportLoop(tx, lines, i + 1, accepted, skipped + 1)
    ELSE IF HasFullTriple(obj)
    THEN LET t == InsertTriple(ins.db, obj.triple.subject, obj.triple.predicate,
                               obj.triple.object, obj.crouton_id)
         IN  ImportLoop([tx EXCEPT !.work = t.db], lines, i + 1, accepted + 1, skipped)
    ELSE ImportLoop([tx EXCEPT !.work = ins.db], lines, i + 1, accepted + 1, skipped)

\* app.post("/import", ...)
ImportHandler(db, header, body) ==
    IF body.isString /\ body.chunks = <<>>
    THEN Result(400, "empty body", db, 0, 0, 0, 0)
    ELSE
    LET v == verifyHmacHeader(header, body) IN
    IF v = "throws" THEN Result(0, "", db, 0, 0, 0, 0)
    ELSE IF v = "false" THEN Result(401, "invalid signature", db, 0, 0, 0, 0)
    ELSE
    LET lines == FilterBoolean(Split(body.chunks)) IN
    IF Len(lines) = 0 THEN Result(400, "no lines", db, 0, 0, 0, 0)
    ELSE ImportLoop(Begin(db), lines, 1, 0, 0)

----------------------------------------------------------------------------
(* POST /api/import and POST /v1/streams/ingest (part_007): statements run *)
(* one by one on the pool (autocommit); a failed statement is logged and   *)
(* the loop goes on.                                                       *)

Factlet(fact_id, page_id, claim, about) ==
    [kind |-> "Factlet", fact_id |-> fact_id, page_id |-> page_id, claim |-> claim,
     about |-> about]

TripleRec(s, p, o, ev) ==
    [kind |-> "Triple", subject |-> s, predicate |-> p, object |-> o,
     evidence_fact_id |-> ev]

F1 == Factlet(<<"c1">>, <<"u1">>, <<"t1">>, NULL)
F2 == Factlet(<<"c1">>, <<"u2">>, <<"t2">>, <<"B">>)
TR1 == TripleRec(<<"A">>, <<"offers">>, <<"B">>, <<"c9">>)

\* what one line of an /api/import or /v1/streams/ingest body may be
FeedChunks == {BadChunk, F1, F2, TR1}

\* the lines JSON.parse accepts, parsed (a line that does not parse is skipped)
ParsedRecords(lines) == SelectSeq(lines, ParsesAsJson)

RECURSIVE ApiImportLoop(_, _, _, _, _)
ApiImportLoop(db, records, i, factlets, triplesIn) ==
    IF i > Len(records)
    THEN Result(200, "", db, factlets, triplesIn, Len(records), Len(records))
    ELSE
    LET record == records[i][1] IN
    IF record.kind = "null"
    THEN \* record["@type"] on null: TypeError, caught by the outer catch
         Result(500, "TypeError", db, 0, 0, 0, Len(records))
    ELSE IF record.kind = "Factlet"
    THEN IF record.fact_id = NULL \/ record.claim = NULL \/ record.page_id = NULL
         THEN ApiImportLoop(db, records, i + 1, factlets, triplesIn)
         ELSE LET up == UpsertCroutonById(db,
                          [crouton_id |-> record.fact_id, source_url |-> record.page_id,
                           source_hash |-> NULL, corpus_id |-> <<"default">>,
                           triple |-> NoTriple, text |-> record.claim])
              IN  IF up.err THEN ApiImportLoop(db, records, i + 1, factlets, triplesIn)
                  ELSE ApiImportLoop(up.db, records, i + 1, factlets + 1, triplesIn)
    ELSE IF record.kind = "Triple"
    THEN IF record.subject = NULL \/ record.predicate = NULL \/ record.object = NULL
         THEN ApiImportLoop(db, records, i + 1, factlets, triplesIn)
         ELSE LET t == InsertTriple(db, record.subject, record.predicate, record.object,
                                    record.evidence_fact_id)
              IN  ApiImportLoop(t.db, records, i + 1, factlets, triplesIn + 1)
    ELSE ApiImportLoop(db, records, i + 1, factlets, triplesIn)

\* app.post("/api/import", ...); accepted / skipped carry factlets_inserted /
\* triples_inserted, total carries records_received
ApiImportHandler(db, header, body) ==
    LET v == verifyHmacHeader(header, body) IN
    IF v = "throws" THEN Result(500, "TypeError", db, 0, 0, 0, 0)
    ELSE IF v = "false" THEN Result(401, "Invalid HMAC signature", db, 0, 0, 0, 0)
    ELSE
    LET lines == FilterBoolean(Split(body.chunks))
        records == ParsedRecords(lines)
    IN  IF Len(records) = 0
        THEN Result(400, "No valid records found", db, 0, 0, 0, Len(lines))
        ELSE [ApiImportLoop(db, records, 1, 0, 0) EXCEPT !.parsed = Len(lines)]

\* API_KEYS of the deployment (when unset, any non-empty key passes)
API_KEYS == {"key-1"}
NoKey == ""

RECURSIVE StreamsLoop(_, _, _, _, _)
StreamsLoop(db, records, i, inserted, triplesCreated) ==
    IF i > Len(records)
    THEN Result(200, "", db, inserted, triplesCreated, Len(records), Len(records))
    ELSE
    LET record == records[i][1] IN
    IF record.kind = "null" THEN Result(500, "TypeError", db, 0, 0, 0, Len(records))
    ELSE IF record.kind # "Factlet" \/ record.fact_id = NULL \/ record.claim = NULL
    THEN StreamsLoop(db, records, i + 1, inserted, triplesCreated)
    ELSE
    LET triple == IF record.about # NULL
                  THEN Triple(record.fact_id, <<"about">>, record.about)
                  ELSE NoTriple
        pageId == IF record.page_id # NULL THEN record.page_id ELSE <<"unknown">>
        up == UpsertCroutonById(db,
                [crouton_id |-> record.fact_id, source_url |-> pageId,
                 source_hash |-> record.fact_id, corpus_id |-> <<"default">>,
                 triple |-> triple, text |-> record.claim])
    IN  IF up.err THEN StreamsLoop(db, records, i + 1, inserted, triplesCreated)
        ELSE IF triple.present
        THEN LET t == InsertTriple(up.db, triple.subject, triple.predicate,
                                   triple.object, record.fact_id)
             IN  StreamsLoop(t.db, records, i + 1, inserted + 1, triplesCreated + 1)
        ELSE StreamsLoop(up.db, records, i + 1, inserted + 1, triplesCreated)

\* app.post("/v1/streams/ingest", ...): Bearer key, no X-Signature check
StreamsIngestHandler(db, apiKey, body) ==
    IF apiKey = NoKey THEN Result(401, "Missing API key", db, 0, 0, 0, 0)
    ELSE IF API_KEYS # {} /\ apiKey \notin API_KEYS
    THEN Result(401, "Invalid API key", db, 0, 0, 0, 0)
    ELSE
    LET lines == IF body.isString THEN FilterBoolean(Split(body.chunks))
                 ELSE <<(<<BadChunk>>)>>    \* String({}) is "[object Object]"
        records == ParsedRecords(lines)
    IN  IF Len(records) = 0
        THEN Result(400, "No valid records found", db, 0, 0, 0, Len(lines))
        ELSE [StreamsLoop(db, records, 1, 0, 0) EXCEPT !.parsed = Len(lines)]

----------------------------------------------------------------------------
(* Migrations that write: 005_backfill_triples.sql and 008_outbox.sql *)

\* the rows of SELECT DISTINCT subject, predicate, object, crouton_id FROM croutons
\* WHERE triple IS NOT NULL AND each of the three is not null
BackfillSelect(rows) ==
    {[subject |-> c.triple.subject, predicate |-> c.triple.predicate,
      object |-> c.triple.object, crouton_id |-> c.crouton_id] :
        c \in {x \in rows : /\ x.triple.present
                            /\ x.triple.subject # NULL
                            /\ x.triple.predicate # NULL
                            /\ x.triple.object # NULL}}

\* INSERT INTO triples ... SELECT ... ON CONFLICT DO NOTHING, the selected rows
\* taken in the order `order` (a sequence of them)
RECURSIVE BackfillInsert(_, _, _)
BackfillInsert(db, order, i) ==
    IF i > Len(order) THEN db
    ELSE BackfillInsert(InsertTriple(db, order[i].subject, order[i].predicate,
                                     order[i].object, order[i].crouton_id).db,
                        order, i + 1)

\* every order in which a set of rows can come out of the SELECT
Orders(S) ==
    {f \in [1 .. Cardinality(S) -> S] : \A i, j \in 1 .. Cardinality(S) : f[i] = f[j] => i = j}

----------------------------------------------------------------------------
(* Requests *)

Segments(pool) == {<<>>} \cup {<<c>> : c \in pool}

\* segs.join("\n")
RECURSIVE Join(_)
Join(segs) ==
    IF Len(segs) = 0 THEN <<>>
    ELSE IF Len(segs) = 1 THEN segs[1]
    ELSE segs[1] \o <<NL>> \o Join(Tail(segs))

\* every string of at most n segments, and the body that is no string
BodiesUpTo(n, pool) ==
    {StrBody(Join(f)) : f \in UNION {[1 .. k -> Segments(pool)] : k \in 1 .. n}}
        \cup {NoBody}

Bodies(pool) == BodiesUpTo(MaxSegs, pool)

FeedBodies == BodiesUpTo(MaxFeedSegs, FeedChunks)

\* the X-Signature a sender may put on a body: none; the digest under another
\* key; the digest of the body; the digest of the body with its trailing newline
\* toggled; the digest of the body followed by a character that is no hex digit
AllSigKinds == {"none", "wrongkey", "exact", "alt", "junk"}
\* the kinds the requests of the state machine carry
SigKinds == {"none", "exact"}

MakeHeader(sig, body) ==
    CASE sig = "none"     -> NoHeader
      [] sig = "wrongkey" -> Header("sha256=", HmacHexWith(OtherKey, body.chunks))
      [] sig = "exact"    -> Header("sha256=", hmacHex(body.chunks))
      [] sig = "alt"      -> Header("sha256=", hmacHex(ToggleNL(body.chunks)))
      [] sig = "junk"     -> Header("sha256=", Append(hmacHex(body.chunks), NonHex))

ApiKeys == {NoKey, "key-1", "key-2"}

Response(ep, sig, r) ==
    [ep |-> ep, sig |-> sig, status |-> r.status, error |-> r.error,
     accepted |-> r.accepted, skipped |-> r.skipped, total |-> r.total,
     parsed |-> r.parsed]

NoResponse ==
    [ep |-> "none", sig |-> "none", status |-> 0, error |-> "", accepted |-> 0,
     skipped |-> 0, total |-> 0, parsed |-> 0]

\* characters of the bodies given to verifyHmacHeader
CharA == [kind |-> "chr", c |-> "a"]
CharB == [kind |-> "chr", c |-> "b"]
Chars == {NL, CharA, CharB}

\* every string of at most MaxBody characters
Strings == UNION {[1 .. n -> Chars] : n \in 0 .. MaxBody}

\* what a sender may do to a hex digest before putting it in the header
Shapes == {"plain", "junk1", "junk2", "nibble", "byte", "short", "holed", "empty"}

Shaped(shape, hex) ==
    CASE shape = "plain"  -> hex
      [] shape = "junk1"  -> Append(hex, NonHex)
      [] shape = "junk2"  -> hex \o <<NonHex, NonHex>>
      [] shape = "nibble" -> Append(hex, hex[1])
      [] shape = "byte"   -> hex \o <<hex[1], hex[2]>>
      [] shape = "short"  -> SubSeq(hex, 1, Len(hex) - 2)
      [] shape = "holed"  -> [hex EXCEPT ![2] = NonHex]
      [] shape = "empty"  -> <<>>

\* the X-Signature headers: a digest of some string under some key, in some
\* shape, behind the prefix; a plain digest behind another prefix; none
Headers ==
    {Header("sha256=", Shaped(sh, HmacHexWith(k, m))) :
        sh \in Shapes, k \in {HMAC_SECRET, OtherKey}, m \in Strings}
    \cup {Header(p, hmacHex(m)) : p \in {"", "sha1="}, m \in Strings}
    \cup {NoHeader}

----------------------------------------------------------------------------
\* a nullable BOOLEAN column, and SQL's three-valued OR
Bool3 == {"true", "false", "null"}
\* x = true on a BOOLEAN: null for null, otherwise x
PgEqTrue(x) == IF x = "null" THEN "null" ELSE IF x = "true" THEN "true" ELSE "false"
PgOr(a, b) ==
    IF a = "true" \/ b = "true" THEN "true"
    ELSE IF a = "null" \/ b = "null" THEN "null"
    ELSE "false"

\* a row of source_tracking.source_participation (the columns the trigger reads)
ParticipationRow(crouton_id, source_domain, ai, md) ==
    [crouton_id |-> crouton_id, source_domain |-> source_domain,
     ai_readable_source |-> ai, markdown_discovered |-> md]

\* a participation trigger without the WHERE clause
notify_unfiltered(db, NewRow) ==
    [db EXCEPT
        !.outbox = @ \cup {OutboxRow(db.seq + 1, "source_participation.insert", NewRow)},
        !.seq = @ + 1]

\* source_tracking.notify_source_participation, run by
\* notify_source_participation_trigger AFTER INSERT OR UPDATE, FOR EACH ROW:
\* INSERT ... SELECT ... WHERE keeps the row when the condition is true, and
\* drops it when the condition is false or null
notify_source_participation(db, NewRow) ==
    IF PgOr(PgEqTrue(NewRow.ai_readable_source),
            PgEqTrue(NewRow.markdown_discovered)) = "true"
    THEN [db EXCEPT
            !.outbox = @ \cup {OutboxRow(db.seq + 1, "source_participation.insert",
                                  [crouton_id |-> NewRow.crouton_id,
                                   source_domain |-> NewRow.source_domain,
                                   ai_readable_source |-> NewRow.ai_readable_source,
                                   markdown_discovered |-> NewRow.markdown_discovered])},
            !.seq = @ + 1]
    ELSE db

(* The state machine *)

CurrentDb == Db(croutons, triples, outbox, outbox_seq, "008_outbox" \in applied)

WithinBounds(db) == Cardinality(db.croutons) <= MaxFacts /\ db.seq <= MaxSeq

Install(db) ==
    /\ croutons' = db.croutons
    /\ triples' = db.triples
    /\ outbox' = db.outbox
    /\ outbox_seq' = db.seq

InitStore ==
    /\ croutons = {}
    /\ triples = {}
    /\ outbox = {}
    /\ outbox_seq = 0
    /\ resp = NoResponse

HashOut(state, a, b, r) ==
    [state |-> state, hashA |-> a, hashB |-> b, status |-> r.status,
     accepted |-> r.accepted, skipped |-> r.skipped]

InitHashIdle ==
    /\ hIn = <<>>
    /\ hOut = HashOut("idle", <<>>, <<>>, NoResponse)

\* the connections of the pool (two requests can be served at once) and the
\* drain workers
Clients == {1, 2}
Workers == {1, 2}

\* a connection: where its request stands (pc), the lines of the batch, the line
\* at hand, the counters, the rows its open transaction wrote, the response
Conn(pc, lines, i, accepted, skipped, c, t, o, r) ==
    [pc |-> pc, lines |-> lines, i |-> i, accepted |-> accepted, skipped |-> skipped,
     croutons |-> c, triples |-> t, outbox |-> o, resp |-> r]

IdleConn == Conn("idle", <<>>, 0, 0, 0, {}, {}, {}, NoResponse)

\* a drain worker: the ids of the rows its claim in flight has locked, the ids
\* of the events delivered to it that it has not yet answered, and whether
\* its process is running
Held(locked, got, up) == [locked |-> locked, got |-> got, up |-> up]
NoHeld == Held({}, {}, TRUE)

\* what psql prints after a statement ("UPDATE 2"), before any statement ran
CommandTag(command, rows) == [command |-> command, rows |-> rows]
NoTag == CommandTag("", 0)

\* the response of GET /api/graph (status 0: none was sent)
GraphResponse(status, nodes, links) ==
    [status |-> status, nodes |-> nodes, links |-> links,
     meta |-> [node_count |-> Cardinality(nodes), link_count |-> Len(links),
               capped |-> Cardinality(nodes) >= maxNodes \/ Len(links) >= maxLinks]]
NoGraph == GraphResponse(0, {}, <<>>)

\* the migration files of the model, in the order of readdirSync(...).sort()
files == <<"003_source_hash_index.sql", "004_safe_source_hash.sql", "004_triples_unique.sql">>

\* the files whose SQL holds its own BEGIN; ... COMMIT;
OwnTransaction == {"004_safe_source_hash.sql"}

\* the migration runner and the store as it sees it: the rows of
\* schema_migrations, how often the effects of each file were committed, where
\* the run stands, the set read at its start, the file at hand, whether a
\* transaction is open on its connection, and what that transaction holds
Migrate(recorded, effects, pc, already, i, txn, sql, row) ==
    [schema_migrations |-> recorded, effects |-> effects, pc |-> pc,
     already |-> already, i |-> i, txn |-> txn, sql |-> sql, row |-> row]

IdleMigrate ==
    Migrate({}, [f \in {files[k] : k \in DOMAIN files} |-> 0], "idle", {}, 0, FALSE, {}, {})

\* a row of table job_runs
JobRun(job_run_id, status) == [job_run_id |-> job_run_id, status |-> status]

\* table job_runs, the runs started so far, and the run at hand: where it
\* stands, its jobRunId, its results, and how its promise settled
Job(job_runs, runs, pc, jobRunId, results, settled) ==
    [job_runs |-> job_runs, runs |-> runs, pc |-> pc, jobRunId |-> jobRunId,
     results |-> results, settled |-> settled]

\* the results object of a run, as far as the run decides by it (status "":
\* the object has no status)
Results(jobRunId, totalNormalized, totalQuarantined, status) ==
    [jobRunId |-> jobRunId, totalNormalized |-> totalNormalized,
     totalQuarantined |-> totalQuarantined, status |-> status]

NoResults == Results(0, 0, 0, "")

IdleJob == Job({}, 0, "idle", 0, NoResults, "none")

\* requestCounts (per client id, the arrival times kept), every arrival time
\* that passed the rate check, Date.now(), the requests made, the last response
Rate(requestCounts, passed, now, made, last) ==
    [requestCounts |-> requestCounts, passed |-> passed, now |-> now, made |-> made,
     last |-> last]

IdleRate == Rate(<<>>, <<>>, 0, 0, [clientId |-> "", status |-> 0])

InitServicesIdle ==
    /\ conn = [c \in Clients |-> IdleConn]
    /\ held = [w \in Workers |-> NoHeld]
    /\ tag = NoTag
    /\ source_participation = {}
    /\ graph = NoGraph
    /\ wire = [c \in Clients |-> <<>>]
    /\ migrate = IdleMigrate
    /\ job = IdleJob

InitConnIdle ==
    /\ InitServicesIdle
    /\ rate = IdleRate

InitHmacIdle ==
    /\ vBody = NoBody
    /\ vHeader = NoHeader
    /\ vOut = "idle"
    /\ InitHashIdle
    /\ InitConnIdle

\* a database migrated up to 004 (an older deployment) or up to the last file
Init ==
    /\ InitStore
    /\ applied \in {{}, {"005_backfill", "008_outbox"}}
    /\ InitHmacIdle

\* one request to an endpoint, its lines drawn from pool; `observed`: whether
\* resp keeps its response
Import(observed, pool) ==
    \E sig \in SigKinds, body \in Bodies(pool) :
        \E r \in {ImportHandler(CurrentDb, MakeHeader(sig, body), body)} :
        /\ WithinBounds(r.db)
        /\ Install(r.db)
        /\ resp' = IF observed THEN Response("/import", sig, r) ELSE resp
        /\ UNCHANGED <<applied, vBody, vHeader, vOut, hIn, hOut, conn, held,
                 tag, source_participation, graph, svcVars>>

ApiImport(observed, bodies) ==
    \E sig \in SigKinds, body \in bodies :
        \E r \in {ApiImportHandler(CurrentDb, MakeHeader(sig, body), body)} :
        /\ WithinBounds(r.db)
        /\ Install(r.db)
        /\ resp' = IF observed THEN Response("/api/import", sig, r) ELSE resp
        /\ UNCHANGED <<applied, vBody, vHeader, vOut, hIn, hOut, conn, held,
                 tag, source_participation, graph, svcVars>>

StreamsIngest(observed, bodies) ==
    \E apiKey \in ApiKeys, body \in bodies :
        \E r \in {StreamsIngestHandler(CurrentDb, apiKey, body)} :
        /\ WithinBounds(r.db)
        /\ Install(r.db)
        /\ resp' = IF observed THEN Response("/v1/streams/ingest", "none", r) ELSE resp
        /\ UNCHANGED <<applied, vBody, vHeader, vOut, hIn, hOut, conn, held,
                 tag, source_participation, graph, svcVars>>

\* the migration runner applies 005_backfill_triples.sql
Migrate005 ==
    /\ "005_backfill" \notin applied
    /\ \E order \in Orders(BackfillSelect(croutons)) :
         Install(BackfillInsert(CurrentDb, order, 1))
    /\ applied' = applied \cup {"005_backfill"}
    /\ UNCHANGED <<resp, vBody, vHeader, vOut, hIn, hOut, conn, held,
                 tag, source_participation, graph, svcVars>>

\* the migration runner applies 008_outbox.sql (files run in name order)
Migrate008 ==
    /\ "005_backfill" \in applied
    /\ "008_outbox" \notin applied
    /\ applied' = applied \cup {"008_outbox"}
    /\ UNCHANGED <<croutons, triples, outbox, outbox_seq, resp, vBody, vHeader, vOut,
                 hIn, hOut, conn, held,
                 tag, source_participation, graph, svcVars>>

\* every writer of the store
Next ==
    \/ Import(FALSE, StoreChunks)
    \/ ApiImport(FALSE, FeedBodies)
    \/ StreamsIngest(FALSE, FeedBodies)
    \/ Migrate005
    \/ Migrate008

Spec == Init /\ [][Next]_vars

\* POST /import alone, each response observed
NextImport == Import(TRUE, ImportChunks)

SpecImport == Init /\ [][NextImport]_vars

\* POST /api/import and POST /v1/streams/ingest alone, each response observed,
\* over bodies of several lines
FeedBatches == BodiesUpTo(MaxSegs, FeedChunks)

NextFeed ==
    \/ ApiImport(TRUE, FeedBatches)
    \/ StreamsIngest(TRUE, FeedBatches)

SpecFeed == Init /\ [][NextFeed]_vars

\* the content of O2 delivered under another natural id
O6 == Obj(<<"c3">>, <<"u1">>, <<"t2">>, T_AB)

\* the lines a committed batch can hold (a record needs only its source_url),
\* and one line that fails
CommitChunks == {BadChunk, O2, O3, O4, O6}

\* POST /import alone, on batches that can commit
NextCommit == Import(TRUE, CommitChunks)

SpecCommit == Init /\ [][NextCommit]_vars

\* POST /import over records that share a natural id or a content hash
CollideChunks == {O2, O4, O6}

NextCollide == Import(TRUE, CollideChunks)

SpecCollide == Init /\ [][NextCollide]_vars

\* verifyHmacHeader alone, on every body and header
InitHmac ==
    /\ InitStore
    /\ applied = {}
    /\ vBody \in {StrBody(m) : m \in Strings} \cup {NoBody}
    /\ vHeader \in Headers
    /\ vOut = "pending"
    /\ InitHashIdle
    /\ InitConnIdle

Verify ==
    /\ vOut = "pending"
    /\ vOut' = verifyHmacHeader(vHeader, vBody)
    /\ UNCHANGED <<croutons, triples, outbox, outbox_seq, applied, resp, vBody, vHeader,
                 hIn, hOut, conn, held,
                 tag, source_participation, graph, svcVars>>

NextHmac == Verify

SpecHmac == InitHmac /\ [][NextHmac]_vars

\* the orders the three keys of a triple can be written in
KeyOrders ==
    {k \in [1 .. 3 -> {"subject", "predicate", "object"}] :
        \A i, j \in 1 .. 3 : k[i] = k[j] => i = j}

ObjKeysReversed == <<"triple", "text", "source_url", "crouton_id">>

HashTriples ==
    {NoTriple} \cup
    {TripleKeyed(<<"A">>, <<"offers">>, o, k) : o \in {<<"B">>, <<"C">>}, k \in KeyOrders}

\* the records given to the content hasher, under natural id cid
HashRecords(cid) ==
    {ObjKeyed(cid, url, text, t, k) :
        url \in {<<"u1">>, <<"u2">>}, text \in {<<"t1">>, <<"t2">>},
        t \in HashTriples, k \in {ObjKeys, ObjKeysReversed}}
      \cup {Obj(cid, <<"u1">>, <<"t1", "|", "t2">>, NoTriple),
            Obj(cid, <<"u1", "|", "t1">>, <<"t2">>, NoTriple),
            Obj(cid, <<"u1">>, NULL, NoTriple),
            Obj(cid, <<"u1">>, <<>>, NoTriple)}

\* the content hasher alone, on every pair of records, and /import on the
\* batch of the two
InitHash ==
    /\ InitStore
    /\ applied = {"005_backfill", "008_outbox"}
    /\ vBody = NoBody /\ vHeader = NoHeader /\ vOut = "idle"
    /\ hIn \in HashRecords(<<"c1">>) \X HashRecords(<<"c2">>)
    /\ hOut = HashOut("pending", <<>>, <<>>, NoResponse)
    /\ InitConnIdle

HashPair ==
    /\ hOut.state = "pending"
    /\ \E r \in {ImportHandler(CurrentDb, MakeHeader("exact", StrBody(<<hIn[1], NL, hIn[2]>>)),
                               StrBody(<<hIn[1], NL, hIn[2]>>))} :
         /\ hOut' = HashOut("done", SourceHash(hIn[1]), SourceHash(hIn[2]), r)
         /\ Install(r.db)
    /\ UNCHANGED <<applied, resp, vBody, vHeader, vOut, hIn, conn, held,
                 tag, source_participation, graph, svcVars>>

NextHash == HashPair

SpecHash == InitHash /\ [][NextHash]_vars

----------------------------------------------------------------------------
(* POST /import served on two connections at once.  Each statement that a  *)
(* connection sends (an INSERT, the COMMIT) is one step, so the statements *)
(* of the two transactions interleave.  The store runs them READ COMMITTED:*)
(* a transaction sees the committed rows and its own; an INSERT whose      *)
(* unique key is held by a row of a transaction still open waits for that  *)
(* transaction to end; two transactions that wait for each other are a     *)
(* deadlock, which the store ends by failing the statement of one of them. *)

\* what one line of a batch may be when two requests are served at once
ConcChunks == {BadChunk, O2, O3}

\* rows written by the transactions open on the other connections
OthersCroutons(c) == UNION {conn[d].croutons : d \in Clients \ {c}}
OthersTriples(c) == UNION {conn[d].triples : d \in Clients \ {c}}
OthersOutbox(c) == UNION {conn[d].outbox : d \in Clients \ {c}}

\* what the statements of connection c see: the committed rows and its own
Snapshot(c) ==
    Db(croutons \cup conn[c].croutons, triples \cup conn[c].triples,
       outbox \cup conn[c].outbox, outbox_seq, "008_outbox" \in applied)

\* every row the tables hold, committed or not (ids are drawn past all of them)
Heap(c) ==
    Db(Snapshot(c).croutons \cup OthersCroutons(c), Snapshot(c).triples \cup OthersTriples(c),
       Snapshot(c).outbox \cup OthersOutbox(c), outbox_seq, "008_outbox" \in applied)

\* the line connection c is at
LineAtHand(c) == conn[c].lines[conn[c].i]

\* whether connection c is about to send the INSERT INTO croutons of its line
ReachesInsert(c) ==
    /\ conn[c].pc = "line"
    /\ conn[c].i <= Len(conn[c].lines)
    /\ LineLength(LineAtHand(c)) <= MAX_LINE_BYTES
    /\ ParsesAsJson(LineAtHand(c))
    /\ LineAtHand(c)[1].kind = "obj"
    /\ LineAtHand(c)[1].source_url # NULL

\* the INSERT INTO croutons of c finds no source_hash conflict among the rows
\* it sees, and a key of its row is held by a row of an open transaction
WaitsOnFact(c) ==
    /\ ReachesInsert(c)
    /\ LET v == ImportVals(LineAtHand(c)[1]) IN
       /\ ~\E x \in Snapshot(c).croutons : x.source_hash = v.source_hash
       /\ ViolatesCroutonKeys(OthersCroutons(c), CroutonRow(0, v))

\* the INSERT INTO triples of c finds no conflict among the rows it sees, and
\* its (subject, predicate, object) is held by a row of an open transaction
WaitsOnTriple(c) ==
    /\ conn[c].pc = "triple"
    /\ LET t == LineAtHand(c)[1].triple IN
       /\ ~\E x \in Snapshot(c).triples : SameSPO(x, t.subject, t.predicate, t.object)
       /\ \E x \in OthersTriples(c) : SameSPO(x, t.subject, t.predicate, t.object)

Waits(c) == WaitsOnFact(c) \/ WaitsOnTriple(c)

\* what the handler does with its pooled client, in order: the statements it
\* sends and the release
Sends(c, sent) == wire' = [wire EXCEPT ![c] = @ \o sent]

\* an error exit that releases the client with its transaction open
AbortWithoutRollback(c, sent, status, error) ==
    /\ conn' = [conn EXCEPT ![c] =
                   Conn("done", @.lines, @.i, 0, 0, {}, {}, {},
                        Response("/import", "exact",
                                 Result(status, error, CurrentDb, 0, 0, 0, @.i)))]
    /\ Sends(c, sent \o <<"release">>)

\* ROLLBACK (after the statements sent for the line), an error response and,
\* in the finally block, the release; the rows of the transaction are gone
Abort(c, sent, status, error) ==
    /\ conn' = [conn EXCEPT ![c] =
                   Conn("done", @.lines, @.i, 0, 0, {}, {}, {},
                        Response("/import", "exact",
                                 Result(status, error, CurrentDb, 0, 0, 0, @.i)))]
    /\ Sends(c, sent \o <<"ROLLBACK", "release">>)

\* a request arrives: the checks before BEGIN, then BEGIN
ConcBegin(c) ==
    /\ conn[c].pc = "idle"
    /\ \E body \in Bodies(ConcChunks) :
         LET header == MakeHeader("exact", body)
             lines == IF body.isString THEN FilterBoolean(Split(body.chunks)) ELSE <<>>
         IN  IF (body.isString /\ body.chunks = <<>>)
                \/ verifyHmacHeader(header, body) # "true"
                \/ Len(lines) = 0
             THEN /\ conn' = [conn EXCEPT ![c] =
                                 Conn("done", lines, 0, 0, 0, {}, {}, {},
                                      Response("/import", "exact",
                                               ImportHandler(CurrentDb, header, body)))]
                  /\ UNCHANGED wire
             ELSE /\ conn' = [conn EXCEPT ![c] =
                                 Conn("line", lines, 1, 0, 0, {}, {}, {}, NoResponse)]
                  /\ Sends(c, <<"connect", "BEGIN">>)
    /\ UNCHANGED <<croutons, triples, outbox, outbox_seq, applied, resp, vBody, vHeader,
                 vOut, hIn, hOut, held,
                 tag, source_participation, graph, runVars>>

\* the loop body for one line, up to and with the INSERT INTO croutons
ConcLine(c) ==
    /\ conn[c].pc = "line"
    /\ conn[c].i <= Len(conn[c].lines)
    /\ ~WaitsOnFact(c)
    /\ LET k == conn[c]
           line == LineAtHand(c)
       IN  IF LineLength(line) > MAX_LINE_BYTES
           THEN Abort(c, <<>>, 413, "line too large") /\ UNCHANGED outbox_seq
           ELSE IF ~ParsesAsJson(line)
           THEN Abort(c, <<>>, 400, "invalid JSON line") /\ UNCHANGED outbox_seq
           ELSE IF line[1].kind = "null"
           THEN Abort(c, <<>>, 500, "import_failed") /\ UNCHANGED outbox_seq
           ELSE IF line[1].kind # "obj" \/ line[1].source_url = NULL
           THEN Abort(c, <<>>, 400, "source_url is required") /\ UNCHANGED outbox_seq
           ELSE \E ins \in {InsertCroutonByHash(Heap(c), ImportVals(line[1]))} :
                  IF ins.err
                  THEN Abort(c, <<"INSERT croutons">>, 500, "import_failed")
                       /\ UNCHANGED outbox_seq
                  ELSE /\ outbox_seq' = ins.db.seq
                       /\ Sends(c, <<"INSERT croutons">>)
                       /\ conn' = [conn EXCEPT ![c] =
                            IF ins.rowCount = 0
                            THEN Conn("line", k.lines, k.i + 1, k.accepted, k.skipped + 1,
                                      k.croutons, k.triples, k.outbox, NoResponse)
                            ELSE Conn(IF HasFullTriple(line[1]) THEN "triple" ELSE "line",
                                      k.lines,
                                      IF HasFullTriple(line[1]) THEN k.i ELSE k.i + 1,
                                      k.accepted + 1, k.skipped,
                                      k.croutons \cup (ins.db.croutons \ Heap(c).croutons),
                                      k.triples,
                                      k.outbox \cup (ins.db.outbox \ Heap(c).outbox),
                                      NoResponse)]
    /\ UNCHANGED <<croutons, triples, outbox, applied, resp, vBody, vHeader, vOut, hIn,
                 hOut, held,
                 tag, source_participation, graph, runVars>>

\* the INSERT INTO triples of the line at hand
ConcTriple(c) ==
    /\ conn[c].pc = "triple"
    /\ ~WaitsOnTriple(c)
    /\ LET k == conn[c]
           obj == LineAtHand(c)[1]
       IN  \E t \in {InsertTriple(Heap(c), obj.triple.subject, obj.triple.predicate,
                                  obj.triple.object, obj.crouton_id)} :
             /\ outbox_seq' = t.db.seq
             /\ conn' = [conn EXCEPT ![c] =
                            Conn("line", k.lines, k.i + 1, k.accepted, k.skipped,
                                 k.croutons,
                                 k.triples \cup (t.db.triples \ Heap(c).triples),
                                 k.outbox \cup (t.db.outbox \ Heap(c).outbox),
                                 NoResponse)]
    /\ Sends(c, <<"INSERT triples">>)
    /\ UNCHANGED <<croutons, triples, outbox, applied, resp, vBody, vHeader, vOut, hIn,
                 hOut, held,
                 tag, source_participation, graph, runVars>>

\* COMMIT after the last line, and the 200 response
ConcCommit(c) ==
    /\ conn[c].pc = "line"
    /\ conn[c].i > Len(conn[c].lines)
    /\ croutons' = croutons \cup conn[c].croutons
    /\ triples' = triples \cup conn[c].triples
    /\ outbox' = outbox \cup conn[c].outbox
    /\ conn' = [conn EXCEPT ![c] =
                   Conn("done", @.lines, @.i, @.accepted, @.skipped, {}, {}, {},
                        Response("/import", "exact",
                                 Result(200, "", CurrentDb, @.accepted, @.skipped,
                                        Len(@.lines), @.i - 1)))]
    /\ Sends(c, <<"COMMIT", "release">>)
    /\ UNCHANGED <<outbox_seq, applied, resp, vBody, vHeader, vOut, hIn, hOut, held,
                 tag, source_participation, graph, runVars>>

\* every open transaction waits for another: the store fails the statement of
\* one of them (deadlock detected), whose handler rolls back and answers 500
ConcDeadlock(c) ==
    /\ \A d \in Clients : Waits(d)
    /\ Abort(c, <<IF WaitsOnFact(c) THEN "INSERT croutons" ELSE "INSERT triples">>,
             500, "import_failed")
    /\ UNCHANGED <<croutons, triples, outbox, outbox_seq, applied, resp, vBody, vHeader,
                 vOut, hIn, hOut, held,
                 tag, source_participation, graph, runVars>>

InitConc ==
    /\ InitStore
    /\ applied = {"005_backfill", "008_outbox"}
    /\ InitHmacIdle

NextConc ==
    \/ \E c \in Clients : ConcBegin(c)
    \/ \E c \in Clients : ConcLine(c)
    \/ \E c \in Clients : ConcTriple(c)
    \/ \E c \in Clients : ConcCommit(c)
    \/ \E c \in Clients : ConcDeadlock(c)

SpecConc == InitConc /\ [][NextConc]_vars

----------------------------------------------------------------------------
(* The drain protocol on outbox_graph_events.  The drain worker is the     *)
(* graph-indexer service; its claim, ack and nack statements are modelled  *)
(* from the protocol: a claim is one statement that selects pending rows   *)
(* under row locks, skipping rows another claim has locked, and sets them  *)
(* to processing.  Its two halves are two steps, so that claims of several *)
(* workers overlap.  The requeue is the statement of the runbook.          *)

\* most rows one claim takes
BatchSize == 2

\* what one line of a batch may be while the outbox is drained
DrainChunks == {O2, O3}

LockedByOthers(w) == UNION {held[v].locked : v \in Workers \ {w}}

\* a SELECT that does not look at row locks
ClaimSelectNoSkip(w) ==
    /\ held[w].up
    /\ held[w].locked = {}
    /\ \E S \in SUBSET {e.id : e \in {x \in outbox : x.status = "pending"}} :
         /\ S # {}
         /\ Cardinality(S) <= BatchSize
         /\ held' = [held EXCEPT ![w].locked = S]
    /\ UNCHANGED <<croutons, triples, outbox, outbox_seq, applied, resp, vBody, vHeader,
                 vOut, hIn, hOut, conn,
                 tag, source_participation, graph, svcVars>>

\* first half of a claim: SELECT id ... WHERE status = 'pending' LIMIT BatchSize
\* FOR UPDATE SKIP LOCKED
ClaimSelect(w) ==
    /\ held[w].up
    /\ held[w].locked = {}
    /\ \E S \in SUBSET ({e.id : e \in {x \in outbox : x.status = "pending"}}
                          \ LockedByOthers(w)) :
         /\ S # {}
         /\ Cardinality(S) <= BatchSize
         /\ held' = [held EXCEPT ![w].locked = S]
    /\ UNCHANGED <<croutons, triples, outbox, outbox_seq, applied, resp, vBody, vHeader,
                 vOut, hIn, hOut, conn,
                 tag, source_participation, graph, svcVars>>

\* second half: UPDATE ... SET status = 'processing' on the selected rows,
\* RETURNING them to the worker; the locks go at the end of the statement
ClaimUpdate(w) ==
    /\ held[w].locked # {}
    /\ outbox' = {IF e.id \in held[w].locked THEN [e EXCEPT !.status = "processing"] ELSE e :
                    e \in outbox}
    /\ held' = [held EXCEPT ![w] = Held({}, @.got \cup @.locked, TRUE)]
    /\ UNCHANGED <<croutons, triples, outbox_seq, applied, resp, vBody, vHeader, vOut,
                 hIn, hOut, conn,
                 tag, source_participation, graph, svcVars>>

\* ack: the worker applied the event; its row goes to done
Ack(w) ==
    /\ held[w].up
    /\ \E id \in held[w].got :
         /\ outbox' = {IF e.id = id THEN [e EXCEPT !.status = "done"] ELSE e : e \in outbox}
         /\ held' = [held EXCEPT ![w].got = @ \ {id}]
    /\ UNCHANGED <<croutons, triples, outbox_seq, applied, resp, vBody, vHeader, vOut,
                 hIn, hOut, conn,
                 tag, source_participation, graph, svcVars>>

\* a nack that leaves the attempts of the row as they are
NackKeepsAttempts(w) ==
    /\ held[w].up
    /\ \E id \in held[w].got :
         /\ outbox' = {IF e.id = id
                       THEN [e EXCEPT !.status = "failed", !.error = <<"apply failed">>]
                       ELSE e : e \in outbox}
         /\ held' = [held EXCEPT ![w].got = @ \ {id}]
    /\ UNCHANGED <<croutons, triples, outbox_seq, applied, resp, vBody, vHeader, vOut,
                 hIn, hOut, conn, tag, source_participation, graph, svcVars>>

\* nack: applying the event failed; its row goes to failed, attempts + 1, error set
Nack(w) ==
    /\ held[w].up
    /\ \E id \in held[w].got :
         /\ outbox' = {IF e.id = id
                       THEN [e EXCEPT !.status = "failed", !.attempts = @ + 1,
                                      !.error = <<"apply failed">>]
                       ELSE e : e \in outbox}
         /\ held' = [held EXCEPT ![w].got = @ \ {id}]
    /\ UNCHANGED <<croutons, triples, outbox_seq, applied, resp, vBody, vHeader, vOut,
                 hIn, hOut, conn,
                 tag, source_participation, graph, svcVars>>

\* the process of a worker dies between two statements, holding events
Crash(w) ==
    /\ held[w].up
    /\ held[w].locked = {}
    /\ held[w].got # {}
    /\ held' = [held EXCEPT ![w].up = FALSE]
    /\ UNCHANGED <<croutons, triples, outbox, outbox_seq, applied, resp, vBody, vHeader,
                 vOut, hIn, hOut, conn, tag, source_participation, graph, svcVars>>

\* a processing timeout that never fires
NoCrashTimeout(w) ==
    /\ FALSE
    /\ UNCHANGED vars

\* processing timeout: the rows of the events a dead worker held go to failed,
\* attempts + 1, error set; the worker is started again
CrashTimeout(w) ==
    /\ ~held[w].up
    /\ outbox' = {IF e.id \in held[w].got
                  THEN [e EXCEPT !.status = "failed", !.attempts = @ + 1,
                                 !.error = <<"processing timeout">>]
                  ELSE e : e \in outbox}
    /\ held' = [held EXCEPT ![w] = NoHeld]
    /\ UNCHANGED <<croutons, triples, outbox_seq, applied, resp, vBody, vHeader, vOut,
                 hIn, hOut, conn, tag, source_participation, graph, svcVars>>

\* a requeue that also resets the rows that are done
RequeueDone ==
    /\ outbox' = {IF e.status \in {"failed", "done"}
                  THEN [e EXCEPT !.status = "pending", !.attempts = 0, !.error = NULL]
                  ELSE e : e \in outbox}
    /\ tag' = CommandTag("UPDATE", Cardinality({e \in outbox : e.status \in {"failed", "done"}}))
    /\ UNCHANGED <<croutons, triples, outbox_seq, applied, resp, vBody, vHeader, vOut,
                 hIn, hOut, conn, held,
                 source_participation, graph, svcVars>>

\* a requeue that keeps the count of attempts
RequeueKeepsAttempts ==
    /\ outbox' = {IF e.status = "failed"
                  THEN [e EXCEPT !.status = "pending", !.error = NULL]
                  ELSE e : e \in outbox}
    /\ tag' = CommandTag("UPDATE", Cardinality({e \in outbox : e.status = "failed"}))
    /\ UNCHANGED <<croutons, triples, outbox_seq, applied, resp, vBody, vHeader, vOut,
                 hIn, hOut, conn, held,
                 source_participation, graph, svcVars>>

\* UPDATE outbox_graph_events SET status='pending', attempts=0, error=null
\*   WHERE status='failed'
Requeue ==
    /\ outbox' = {IF e.status = "failed"
                  THEN [e EXCEPT !.status = "pending", !.attempts = 0, !.error = NULL]
                  ELSE e : e \in outbox}
    /\ tag' = CommandTag("UPDATE", Cardinality({e \in outbox : e.status = "failed"}))
    /\ UNCHANGED <<croutons, triples, outbox_seq, applied, resp, vBody, vHeader, vOut,
                 hIn, hOut, conn, held,
                 source_participation, graph, svcVars>>

InitDrain ==
    /\ InitStore
    /\ applied = {"005_backfill", "008_outbox"}
    /\ InitHmacIdle

\* /import fills the outbox while the workers drain it
NextDrain ==
    \/ Import(FALSE, DrainChunks)
    \/ \E w \in Workers : ClaimSelect(w)
    \/ \E w \in Workers : ClaimUpdate(w)
    \/ \E w \in Workers : Ack(w)
    \/ \E w \in Workers : Nack(w)
    \/ \E w \in Workers : Crash(w)
    \/ \E w \in Workers : CrashTimeout(w)
    \/ Requeue

SpecDrain == InitDrain /\ [][NextDrain]_vars

\* the drain under fair scheduling: every poll reaches each claimable event again
\* and again, a claim in flight completes, a running worker answers every event it
\* holds (with success or with failure, as the downstream decides), the
\* processing timeout fires, and the operator runs the requeue
EventIds == 1..MaxSeq
ClaimsEvent(id) == \E w \in Workers : ClaimSelect(w) /\ id \in held'[w].locked
AnswersEvent(id) == \E w \in Workers : (Ack(w) \/ Nack(w)) /\ id \in held[w].got \ held'[w].got
FairDrain ==
    /\ \A id \in EventIds : SF_vars(ClaimsEvent(id))
    /\ \A w \in Workers : WF_vars(ClaimUpdate(w))
    /\ \A id \in EventIds : WF_vars(AnswersEvent(id))
    /\ \A w \in Workers : WF_vars(CrashTimeout(w))
    /\ WF_vars(Requeue)
SpecDrainFair == InitDrain /\ [][NextDrain]_vars /\ FairDrain

-----------------------------------------------------------------------------
(* Writes to source_tracking.source_participation.  The statements come    *)
(* from outside src/; the row trigger of migration 011 runs in each.       *)

ParticipationIds == {<<"c1">>}
ParticipationChunks == {O2}
SourceDomains == {<<"d1">>}

\* the trigger's event joins the statement's transaction
InstallParticipation(rows, db) ==
    /\ db.seq <= MaxSeq
    /\ source_participation' = rows
    /\ outbox' = db.outbox
    /\ outbox_seq' = db.seq
    /\ UNCHANGED <<croutons, triples, applied, resp, vBody, vHeader, vOut, hIn, hOut,
                 conn, held, tag, graph, svcVars>>

\* INSERT INTO source_tracking.source_participation
ParticipationInsert ==
    \E cid \in ParticipationIds, dom \in SourceDomains, ai \in Bool3, md \in Bool3 :
        /\ \A r \in source_participation : r.crouton_id # cid
        /\ \E NewRow \in {ParticipationRow(cid, dom, ai, md)} :
              InstallParticipation(source_participation \cup {NewRow},
                                   notify_source_participation(CurrentDb, NewRow))

\* UPDATE source_tracking.source_participation SET ... of one row: the trigger
\* fires whether or not a value changes
ParticipationUpdate ==
    \E OldRow \in source_participation, ai \in Bool3, md \in Bool3 :
        \E NewRow \in {[OldRow EXCEPT !.ai_readable_source = ai,
                                      !.markdown_discovered = md]} :
            InstallParticipation((source_participation \ {OldRow}) \cup {NewRow},
                                 notify_source_participation(CurrentDb, NewRow))

InitParticipation ==
    /\ InitStore
    /\ applied = {"005_backfill", "008_outbox"}
    /\ InitHmacIdle

NextParticipation ==
    \/ Import(FALSE, ParticipationChunks)
    \/ ParticipationInsert
    \/ ParticipationUpdate

SpecParticipation == InitParticipation /\ [][NextParticipation]_vars

-----------------------------------------------------------------------------
(* GET /api/graph over a triples table of some hundred rows.               *)

\* String(x || "").trim(): null gives "", blanks at both ends go
RECURSIVE TrimStart(_)
TrimStart(x) == IF x # <<>> /\ Head(x) = " " THEN TrimStart(Tail(x)) ELSE x
RECURSIVE TrimEnd(_)
TrimEnd(x) == IF x # <<>> /\ x[Len(x)] = " " THEN TrimEnd(SubSeq(x, 1, Len(x) - 1)) ELSE x
Trim(x) == IF x = NULL THEN <<>> ELSE TrimEnd(TrimStart(x))

\* SELECT ... FROM triples ORDER BY created_at DESC LIMIT n (created_at is a
\* logical time: the order in which the rows were written, which is the order
\* of the ids)
RECURSIVE SelectFrom(_, _, _)
SelectFrom(rows, lo, hi) ==
    IF lo > hi THEN <<>>
    ELSE IF lo = hi
    THEN LET at == {r \in rows : r.id = lo}
         IN  IF at = {} THEN <<>> ELSE <<CHOOSE r \in at : TRUE>>
    ELSE LET mid == (lo + hi) \div 2
         IN  SelectFrom(rows, mid + 1, hi) \o SelectFrom(rows, lo, mid)
SelectNewest(rows, n) ==
    IF rows = {} THEN <<>>
    ELSE LET all == SelectFrom(rows, 0, Max({r.id : r \in rows}))
         IN  SubSeq(all, 1, IF Len(all) < n THEN Len(all) ELSE n)

\* the loop over the selected rows lo .. hi, in their order (the first half,
\* then the second half; once both caps are reached no row changes anything):
\* nodesMap (its keys), links
RECURSIVE GraphLoop(_, _, _, _, _)
GraphLoop(rows, lo, hi, nodesMap, links) ==
    IF lo > hi THEN [nodesMap |-> nodesMap, links |-> links]
    ELSE IF lo < hi
    THEN LET mid == (lo + hi) \div 2
             half == GraphLoop(rows, lo, mid, nodesMap, links)
         IN  IF Cardinality(half.nodesMap) >= maxNodes /\ Len(half.links) >= maxLinks
             THEN half
             ELSE GraphLoop(rows, mid + 1, hi, half.nodesMap, half.links)
    ELSE
    LET s == Trim(rows[lo].subject)
        o == Trim(rows[lo].object)
        p == Trim(rows[lo].predicate)
    IN  IF s = <<>> \/ o = <<>> THEN [nodesMap |-> nodesMap, links |-> links]
        ELSE
        LET added == IF Cardinality(nodesMap) < maxNodes THEN nodesMap \cup {s, o}
                     ELSE nodesMap
        IN  IF s \in added /\ o \in added /\ Len(links) < maxLinks
            THEN [nodesMap |-> added,
                  links |-> Append(links, [source |-> s, target |-> o, label |-> p,
                                           evidence_crouton_id |->
                                               rows[lo].evidence_crouton_id])]
            ELSE [nodesMap |-> added, links |-> links]

\* a node's degree: one for each end of each link that is the node
Degree(n, links) ==
    Cardinality({i \in 1 .. Len(links) : links[i].source = n})
        + Cardinality({i \in 1 .. Len(links) : links[i].target = n})

\* app.get("/api/graph", ...)
GraphHandler(db) ==
    LET rows == SelectNewest(db.triples, maxLinks * 2)
        g == GraphLoop(rows, 1, Len(rows), {}, <<>>)
    IN  GraphResponse(200, {[id |-> n, degree |-> Degree(n, g.links)] : n \in g.nodesMap},
                      g.links)

GetGraph ==
    /\ graph' = GraphHandler(CurrentDb)
    /\ UNCHANGED <<croutons, triples, outbox, outbox_seq, applied, resp, vBody, vHeader,
                 vOut, hIn, hOut, conn, held, tag, source_participation, svcVars>>

\* triples tables: `pairs` rows that join two nodes no other row names, and
\* at most one more row, written before or after them, that joins a node with
\* itself or has a blank subject
Digits == <<"0", "1", "2", "3", "4", "5", "6", "7", "8", "9">>
Node(k) == <<"n", Digits[((k \div 100) % 10) + 1], Digits[((k \div 10) % 10) + 1],
             Digits[(k % 10) + 1]>>
ExtraRows == {"none", "loop first", "loop last", "blank last"}
GraphTable(pairs, extra) ==
    {TripleRow(i, Node(2 * i - 1), <<"links", " ">>, Node(2 * i), NULL) : i \in 1 .. pairs}
        \cup (CASE extra = "none" -> {}
                [] extra = "loop first" -> {TripleRow(0, Node(0), <<"links">>, Node(0), NULL)}
                [] extra = "loop last" ->
                      {TripleRow(pairs + 1, Node(0), <<"links">>, Node(0), NULL)}
                [] extra = "blank last" ->
                      {TripleRow(pairs + 1, <<" ">>, <<"links">>, Node(0), NULL)})

InitGraph ==
    /\ croutons = {}
    /\ \E pairs \in 0 .. MaxPairs, extra \in ExtraRows : triples = GraphTable(pairs, extra)
    /\ outbox = {}
    /\ outbox_seq = 0
    /\ resp = NoResponse
    /\ applied = {"005_backfill", "008_outbox"}
    /\ InitHmacIdle

NextGraph == GetGraph

SpecGraph == InitGraph /\ [][NextGraph]_vars

----------------------------------------------------------------------------
(* The migration runner (migrate.js).  Each statement it awaits is a step. *)
(* A run ends when the loop is through, when a file fails (the error is    *)
(* thrown on after ROLLBACK), or when the process or its connection dies   *)
(* between two statements; the store then rolls back the open transaction. *)
(* Runs follow one another.                                                *)

\* most times the effects of one file are committed
MaxApplied == 2

fname == files[migrate.i]

\* the store ends the open transaction of the runner: with its work kept or
\* dropped
EndTransaction(m, keep) ==
    [m EXCEPT !.txn = FALSE, !.sql = {}, !.row = {},
              !.schema_migrations = IF keep THEN @ \cup m.row ELSE @,
              !.effects = [f \in DOMAIN @ |-> IF keep /\ f \in m.sql THEN @[f] + 1 ELSE @[f]]]

\* CREATE TABLE IF NOT EXISTS schema_migrations; SELECT filename FROM
\* schema_migrations
MigrateStart ==
    /\ migrate.pc \in {"idle", "done", "failed"}
    /\ migrate' = [migrate EXCEPT !.pc = "loop", !.already = migrate.schema_migrations,
                                  !.i = 1]
    /\ UNCHANGED <<baseVars, wire, job, rate>>

\* for (const fname of files) { if (already.has(fname)) continue; ... }
MigrateLoop ==
    /\ migrate.pc = "loop"
    /\ migrate' = IF migrate.i > Len(files) THEN [migrate EXCEPT !.pc = "done"]
                  ELSE IF fname \in migrate.already THEN [migrate EXCEPT !.i = @ + 1]
                  ELSE [migrate EXCEPT !.pc = "BEGIN"]
    /\ UNCHANGED <<baseVars, wire, job, rate>>

\* client.query("BEGIN")
MigrateBegin ==
    /\ migrate.pc = "BEGIN"
    /\ migrate' = [migrate EXCEPT !.pc = "sql", !.txn = TRUE]
    /\ UNCHANGED <<baseVars, wire, job, rate>>

\* client.query(sql): the statements of the file, sent as one query.  A
\* statement that fails aborts the transaction and the rest of the query.  The
\* BEGIN of a file raises a warning (a transaction is open already); its
\* COMMIT ends the transaction of the runner.
MigrateSql ==
    /\ migrate.pc = "sql"
    /\ migrate.effects[fname] < MaxApplied
    /\ \E fails \in BOOLEAN :
         migrate' = IF fails THEN [migrate EXCEPT !.pc = "catch"]
                    ELSE IF fname \in OwnTransaction
                    THEN [EndTransaction([migrate EXCEPT !.sql = @ \cup {fname}], TRUE)
                             EXCEPT !.pc = "INSERT"]
                    ELSE [migrate EXCEPT !.pc = "INSERT", !.sql = @ \cup {fname}]
    /\ UNCHANGED <<baseVars, wire, job, rate>>

\* INSERT INTO schema_migrations (filename) VALUES ($1): part of the open
\* transaction, or committed by itself when none is open
MigrateInsert ==
    /\ migrate.pc = "INSERT"
    /\ migrate' = IF migrate.txn
                  THEN [migrate EXCEPT !.pc = "COMMIT", !.row = @ \cup {fname}]
                  ELSE [migrate EXCEPT !.pc = "COMMIT",
                                       !.schema_migrations = @ \cup {fname}]
    /\ UNCHANGED <<baseVars, wire, job, rate>>

\* client.query("COMMIT"); without an open transaction it raises a warning
MigrateCommit ==
    /\ migrate.pc = "COMMIT"
    /\ migrate' = [EndTransaction(migrate, TRUE) EXCEPT !.pc = "loop", !.i = @ + 1]
    /\ UNCHANGED <<baseVars, wire, job, rate>>

\* catch (e) { client.query("ROLLBACK"); throw e; }
MigrateCatch ==
    /\ migrate.pc = "catch"
    /\ migrate' = [EndTransaction(migrate, FALSE) EXCEPT !.pc = "failed"]
    /\ UNCHANGED <<baseVars, wire, job, rate>>

\* the process is killed, or loses its connection, between two statements
MigrateKilled ==
    /\ migrate.pc \in {"loop", "BEGIN", "sql", "INSERT", "COMMIT", "catch"}
    /\ migrate' = [EndTransaction(migrate, FALSE) EXCEPT !.pc = "failed"]
    /\ UNCHANGED <<baseVars, wire, job, rate>>

InitMigrate ==
    /\ InitStore
    /\ applied = {"005_backfill", "008_outbox"}
    /\ InitHmacIdle

NextMigrate ==
    \/ MigrateStart
    \/ MigrateLoop
    \/ MigrateBegin
    \/ MigrateSql
    \/ MigrateInsert
    \/ MigrateCommit
    \/ MigrateCatch
    \/ MigrateKilled

SpecMigrate == InitMigrate /\ [][NextMigrate]_vars

----------------------------------------------------------------------------
(* GhcndDailyIngestJob.run().  The ZIP loop is taken by its totals; the    *)
(* INSERT INTO job_runs is a statement of its own (pool.query).            *)

\* most runs of the job, most records a run normalizes, most it quarantines
MaxRuns == 2
MaxNormalized == 21
MaxQuarantined == 2

\* _recordJobRun(results): INSERT INTO job_runs with status results.status ||
\* 'success'; a failure of the INSERT (job_run_id is UNIQUE) is logged and
\* swallowed
_recordJobRun(job_runs, results) ==
    IF \E r \in job_runs : r.job_run_id = results.jobRunId
    THEN job_runs
    ELSE job_runs \cup {JobRun(results.jobRunId,
                               IF results.status = "" THEN "success" ELSE results.status)}

\* quarantineRate > 5, with quarantineRate = totalQuarantined / totalNormalized
\* * 100 (Infinity when nothing was normalized)
HighQuarantineRate(results) ==
    /\ results.totalQuarantined > 0
    /\ results.totalQuarantined * 100 > 5 * results.totalNormalized

\* run() up to the end of the ZIP loop: a new jobRunId; without NOAA_API_TOKEN
\* the run throws at once
JobRunStart ==
    /\ job.pc \in {"idle", "done"}
    /\ job.runs < MaxRuns
    /\ \E token \in BOOLEAN, n \in 0 .. MaxNormalized, q \in 0 .. MaxQuarantined :
         job' = IF token
                THEN Job(job.job_runs, job.runs + 1, "record", job.runs + 1,
                         Results(job.runs + 1, n, q, ""), "none")
                ELSE Job(job.job_runs, job.runs + 1, "catch", job.runs + 1,
                         NoResults, "none")
    /\ UNCHANGED <<baseVars, wire, migrate, rate>>

\* await this._recordJobRun(results)
JobRecordRun ==
    /\ job.pc = "record"
    /\ job' = [job EXCEPT !.pc = "check",
                          !.job_runs = _recordJobRun(job.job_runs, job.results)]
    /\ UNCHANGED <<baseVars, wire, migrate, rate>>

\* the check for schema mismatches, then the return
JobCheck ==
    /\ job.pc = "check"
    /\ job' = IF HighQuarantineRate(job.results)
              THEN [job EXCEPT !.pc = "catch"]
              ELSE [job EXCEPT !.pc = "done", !.settled = "resolved"]
    /\ UNCHANGED <<baseVars, wire, migrate, rate>>

\* catch (error): _recordJobRun({jobRunId, ..., status: 'failed'}); throw error
JobCatch ==
    /\ job.pc = "catch"
    /\ job' = [job EXCEPT !.pc = "done", !.settled = "rejected",
                          !.job_runs = _recordJobRun(job.job_runs,
                                           Results(job.jobRunId, 0, 0, "failed"))]
    /\ UNCHANGED <<baseVars, wire, migrate, rate>>

InitJob ==
    /\ InitStore
    /\ applied = {"005_backfill", "008_outbox"}
    /\ InitHmacIdle

NextJob ==
    \/ JobRunStart
    \/ JobRecordRun
    \/ JobCheck
    \/ JobCatch

SpecJob == InitJob /\ [][NextJob]_vars

----------------------------------------------------------------------------
(* The rate check of POST /precog/environmental_home_risk.  It runs        *)
(* without an await, so one request is one step.  Date.now() does not go   *)
(* back.  Status 200 stands for whatever the handler answers once the      *)
(* request has passed the rate check.                                      *)

RATE_LIMIT == 100
\* 60 * 60 * 1000 ms
RATE_WINDOW == 3600000

\* the requests of one behaviour, and how many requests short of RATE_LIMIT
\* the first client is when the behaviour starts
MaxRequests == 5
Headroom == 2

\* the instants at which requests arrive: around the start and around the
\* end of the hour that the first requests open
Instants == {0, 1, RATE_WINDOW - 1, RATE_WINDOW, RATE_WINDOW + 1}

\* req.ip of the requests ("": none)
Ips == {"10.0.0.1", ""}

\* requests.filter(time => now - time < RATE_WINDOW), with <= for <
recentRequestsInclusive(requests, now) ==
    SelectSeq(requests, LAMBDA time : now - time <= RATE_WINDOW)

\* requests.filter(time => now - time < RATE_WINDOW)
recentRequests(requests, now) ==
    SelectSeq(requests, LAMBDA time : now - time < RATE_WINDOW)

\* map.set(key, value)
MapSet(map, key, value) ==
    [k \in DOMAIN map \cup {key} |-> IF k = key THEN value ELSE map[k]]

\* map.get(key), [] for a key the map does not have
MapGet(map, key) == IF key \in DOMAIN map THEN map[key] ELSE <<>>

\* the handler up to the end of the rate check
RateCheck ==
    /\ rate.made < MaxRequests
    /\ \E ip \in Ips, now \in {t \in Instants : t >= rate.now} :
         LET clientId == IF ip = "" THEN "unknown" ELSE ip
             requests == MapGet(rate.requestCounts, clientId)
             recent == recentRequests(requests, now)
         IN  rate' = IF Len(recent) >= RATE_LIMIT
                     THEN Rate(MapSet(rate.requestCounts, clientId, requests), rate.passed,
                               now, rate.made + 1,
                               [clientId |-> clientId, status |-> 429])
                     ELSE Rate(MapSet(rate.requestCounts, clientId, Append(recent, now)),
                               MapSet(rate.passed, clientId,
                                      Append(MapGet(rate.passed, clientId), now)),
                               now, rate.made + 1,
                               [clientId |-> clientId, status |-> 200])
    /\ UNCHANGED <<baseVars, wire, migrate, job>>

\* one client has made RATE_LIMIT - Headroom requests in the first millisecond
InitRate ==
    /\ InitStore
    /\ applied = {"005_backfill", "008_outbox"}
    /\ vBody = NoBody
    /\ vHeader = NoHeader
    /\ vOut = "idle"
    /\ InitHashIdle
    /\ InitServicesIdle
    /\ \E served \in {[k \in 1 .. RATE_LIMIT - Headroom |-> 0]} :
         rate = Rate([c \in {"10.0.0.1"} |-> served], [c \in {"10.0.0.1"} |-> served],
                     0, 0, [clientId |-> "", status |-> 0])

NextRate == RateCheck

SpecRate == InitRate /\ [][NextRate]_vars

----------------------------------------------------------------------------
(* Properties of POST /import, checked under SpecImport *)

Tables(db) == <<db.croutons, db.triples, db.outbox>>

ErrorStatuses == {400, 401, 413, 500}

\* C1 (atomicity of POST /import): a request answered with 400, 401, 413 or
\* 500 leaves croutons, triples and outbox_graph_events exactly as they were,
\* whichever line failed and whatever earlier lines were inserted before it.
C1_Atomicity ==
    [][(resp'.ep = "/import" /\ resp'.status \in ErrorStatuses)
          => UNCHANGED <<croutons, triples, outbox,
                 tag, source_participation, graph, svcVars>>]_vars

\* an error response after earlier lines of the batch had been inserted: the
\* triggers handed out outbox ids, and no row of the batch is left
C1_Witness ==
    /\ resp.ep = "/import"
    /\ resp.status \in {400, 413, 500}
    /\ resp.parsed = 2
    /\ outbox_seq > 0
    /\ croutons = {} /\ triples = {} /\ outbox = {}

\* the records of a body, when every non-empty line of it is a well-formed record
Records(body) == FilterBoolean(Split(body.chunks))

WellFormedBatch(body) ==
    /\ body.isString
    /\ Len(Records(body)) > 0
    /\ \A i \in 1 .. Len(Records(body)) :
         LET line == Records(body)[i] IN
         /\ Len(line) = 1
         /\ line[1].kind = "obj"
         /\ line[1].source_url # NULL

RecordAt(body, i) == Records(body)[i][1]

DistinctHashes(body) ==
    \A i, j \in 1 .. Len(Records(body)) :
        i # j => SourceHash(RecordAt(body, i)) # SourceHash(RecordAt(body, j))

HoldsNone(db, body) ==
    \A i \in 1 .. Len(Records(body)) :
        \A x \in db.croutons : x.source_hash # SourceHash(RecordAt(body, i))

\* the natural ids of the batch are free: pairwise distinct where given, and
\* held by no stored Fact
FreeNaturalIds(db, body) ==
    /\ \A i, j \in 1 .. Len(Records(body)) :
         (i # j /\ RecordAt(body, i).crouton_id # NULL)
            => RecordAt(body, i).crouton_id # RecordAt(body, j).crouton_id
    /\ \A i \in 1 .. Len(Records(body)) :
         RecordAt(body, i).crouton_id # NULL
            => \A x \in db.croutons : x.crouton_id # RecordAt(body, i).crouton_id

\* submitting body twice to db: N accepted, then N skipped and nothing added
TwiceIsIdempotent(db, body) ==
    LET N  == Len(Records(body))
        r1 == ImportHandler(db, MakeHeader("exact", body), body)
        r2 == ImportHandler(r1.db, MakeHeader("exact", body), body)
    IN  /\ r1.status = 200 /\ r1.accepted = N /\ r1.skipped = 0
        /\ r2.status = 200 /\ r2.accepted = 0 /\ r2.skipped = N
        /\ Tables(r2.db) = Tables(r1.db)
        /\ r2.db.seq = r1.db.seq

\* C2 (idempotence of POST /import), as amended: for a batch of N well-formed
\* records with pairwise distinct content hashes, none of them in the store,
\* whose natural ids are pairwise distinct and held by no stored Fact, the
\* first submission answers accepted = N, skipped = 0, the second answers
\* accepted = 0, skipped = N and adds no Fact, no Triple and no outbox event.
C2_Idempotence ==
    \A body \in Bodies(ImportChunks) :
        (WellFormedBatch(body) /\ DistinctHashes(body) /\ HoldsNone(CurrentDb, body)
            /\ FreeNaturalIds(CurrentDb, body))
        => TwiceIsIdempotent(CurrentDb, body)

\* C2 as stated: the same for every batch of N well-formed records with
\* pairwise distinct content hashes submitted to a store holding none of them.
C2_AsStated ==
    \A body \in Bodies(ImportChunks) :
        (WellFormedBatch(body) /\ DistinctHashes(body) /\ HoldsNone(CurrentDb, body))
        => TwiceIsIdempotent(CurrentDb, body)

\* the second submission of a batch of two records has been answered
C2_Witness ==
    /\ resp.ep = "/import" /\ resp.status = 200
    /\ resp.accepted = 0 /\ resp.skipped = 2
    /\ Cardinality(croutons) = 2

\* C7 (signature verification is the first step of POST /import): a request
\* without a verifying signature (here: without X-Signature) is answered 401
\* whatever its body is, and no line of it is parsed or written.
C7_SignatureFirst ==
    [][(resp'.ep = "/import" /\ resp'.sig = "none")
          => (/\ resp'.status = 401
              /\ resp'.parsed = 0
              /\ UNCHANGED <<croutons, triples, outbox,
                 tag, source_participation, graph, svcVars>>)]_vars

----------------------------------------------------------------------------
(* Properties of verifyHmacHeader, checked under SpecHmac *)

Verified == vOut \in {"true", "false", "throws"}

\* hex is the digest, under the configured secret, of the body or of the body
\* with one trailing newline toggled
IsDigestOf(hex, body) ==
    \/ hex = hmacHex(body.chunks)
    \/ hex = hmacHex(ToggleNL(body.chunks))

\* hex is the hex encoding of a digest: 2 * DigestLen hex digits
WellFormedDigest(hex) ==
    /\ Len(hex) = 2 * DigestLen
    /\ \A i \in 1 .. Len(hex) : hex[i].hex

\* C5 (signature equivalence class): verifyHmacHeader returns true if and only
\* if the header is "sha256=" followed by the hex HMAC, under the configured
\* secret, of the received body or of the body with one trailing newline
\* toggled; the signature of any other body fails.
C5_EquivalenceClass ==
    Verified =>
        ((vOut = "true") <=>
            (vBody.isString /\ vHeader.prefix = "sha256=" /\ IsDigestOf(vHeader.hex, vBody)))

\* C6 (fail closed): verifyHmacHeader returns false, neither accepting nor
\* throwing, when the header is missing, lacks the prefix, carries a value
\* that is no well-formed hex digest, or an exception occurs inside it.
C6_FailClosed ==
    (Verified /\ (\/ vHeader = NoHeader
                  \/ vHeader.prefix # "sha256="
                  \/ ~WellFormedDigest(vHeader.hex)
                  \/ ~vBody.isString))
        => vOut = "false"

----------------------------------------------------------------------------
(* Properties of the store, checked under Spec *)

TripleEvents(o, t) ==
    {e \in o : /\ e.event_type = "triple.insert"
               /\ e.payload.subject = t.subject
               /\ e.payload.predicate = t.predicate
               /\ e.payload.object = t.object}

FactEvents(o, c) ==
    {e \in o : /\ e.event_type = "factlet.insert"
               /\ e.payload.id = c.id
               /\ e.payload.crouton_id = c.crouton_id
               /\ e.payload.source_url = c.source_url
               /\ e.payload.text = c.text
               /\ e.payload.corpus_id = c.corpus_id}

\* C3 (write/event coupling for triples): once the outbox and its triggers
\* are installed, every triples row has exactly one 'triple.insert' event
\* with its subject, predicate and object, and every such event has its row.
C3_TripleCoupling ==
    "008_outbox" \in applied =>
        /\ \A t \in triples : Cardinality(TripleEvents(outbox, t)) = 1
        /\ \A e \in outbox : e.event_type = "triple.insert" =>
              \E t \in triples : e \in TripleEvents(outbox, t)

\* C4 (write/event coupling for facts): once the outbox and its triggers are
\* installed, every croutons row has exactly one outbox event whose payload
\* (crouton_id, source_url, text, corpus_id) equals the row's current values,
\* after inserts and after upserts by natural id.
C4_FactCoupling ==
    "008_outbox" \in applied =>
        \A c \in croutons : Cardinality(FactEvents(outbox, c)) = 1

\* C8 (all network writes are signature-authenticated): no request to
\* /import, /api/import or /v1/streams/ingest that carries no X-Signature, or
\* one computed under another key, adds or changes a croutons or triples row.
C8_WritesAuthenticated ==
    /\ \A sig \in {"none", "wrongkey"}, body \in Bodies(ImportChunks) :
         LET r == ImportHandler(CurrentDb, MakeHeader(sig, body), body)
         IN  r.db.croutons = croutons /\ r.db.triples = triples
    /\ \A sig \in {"none", "wrongkey"}, body \in FeedBodies :
         LET r == ApiImportHandler(CurrentDb, MakeHeader(sig, body), body)
         IN  r.db.croutons = croutons /\ r.db.triples = triples
    /\ \A apiKey \in ApiKeys, body \in FeedBodies :
         LET r == StreamsIngestHandler(CurrentDb, apiKey, body)
         IN  r.db.croutons = croutons /\ r.db.triples = triples

\* evidence ids a later insert may carry
EvidenceIds == {NULL, <<"c1">>, <<"c2">>, <<"c9">>}

\* C9 (triple uniqueness, first writer wins): the triples table holds at most
\* one row per (subject, predicate, object); an insert of a stored (subject,
\* predicate, object) with any evidence id raises no error and changes
\* nothing; no step of any writer changes a stored row or its events.
C9_TripleFirstWriterWins ==
    [][/\ \A x, y \in triples' :
            SameSPO(x, y.subject, y.predicate, y.object) => x = y
       /\ \A t \in triples, ev \in EvidenceIds :
            InsertTriple(CurrentDb, t.subject, t.predicate, t.object, ev) = Ok(CurrentDb, 0)
       /\ \A t \in triples :
            /\ t \in triples'
            /\ TripleEvents(outbox', t) = TripleEvents(outbox, t)]_vars

\* a stored Fact carries the (subject, predicate, object) of a triples row
\* that another Fact is the evidence of: its insert was the later one
C9_Witness ==
    /\ "008_outbox" \in applied
    /\ \E t \in triples, c \in croutons :
         /\ c.triple.present
         /\ SameSPO(t, c.triple.subject, c.triple.predicate, c.triple.object)
         /\ c.source_hash = SourceHash(O3)
         /\ t.evidence_crouton_id # c.crouton_id
         /\ Cardinality(TripleEvents(outbox, t)) = 1

\* C10 (Fact key uniqueness): no two croutons rows share a non-null
\* source_hash, and no two share a non-null crouton_id.
C10_FactKeysUnique ==
    \A x, y \in croutons :
        x # y =>
            /\ (x.source_hash # NULL => x.source_hash # y.source_hash)
            /\ (x.crouton_id # NULL => x.crouton_id # y.crouton_id)

\* two Facts are stored, each with both keys, and a third write that took
\* one of their keys was refused (its outbox id is missing)
C10_Witness ==
    /\ Cardinality(croutons) = 2
    /\ \A x \in croutons : x.source_hash # NULL /\ x.crouton_id # NULL
    /\ outbox_seq > Cardinality(outbox)
    /\ outbox # {}

----------------------------------------------------------------------------
(* Further properties of POST /import, checked under SpecCommit *)

\* the signed request for a body, handled on the current store
Signed(body) == ImportHandler(CurrentDb, MakeHeader("exact", body), body)

\* how many records of a well-formed batch have their content hash in db
StoredCount(db, body) ==
    Cardinality({i \in 1 .. Len(Records(body)) :
                    \E x \in db.croutons : x.source_hash = SourceHash(RecordAt(body, i))})

\* C11 (skip, not update): a record of POST /import whose content hash is that
\* of a stored Fact leaves every column of the stored row unchanged, is
\* counted as skipped, and gets no outbox event.
C11_SkipNotUpdate ==
    \A body \in Bodies(CommitChunks) :
        WellFormedBatch(body) => \A r \in {Signed(body)} : r.status = 200 =>
            LET N == Len(Records(body))
            IN  /\ \A x \in croutons : x \in r.db.croutons
                /\ r.skipped >= StoredCount(CurrentDb, body)
                /\ r.accepted <= N - StoredCount(CurrentDb, body)
                /\ \A e \in r.db.outbox \ outbox :
                      e.event_type = "factlet.insert" =>
                          \A x \in croutons : e.payload.id # x.id
                /\ StoredCount(CurrentDb, body) = N => Tables(r.db) = Tables(CurrentDb)

\* a batch of two records, one of them already stored, has been committed:
\* one accepted, one skipped, and the stored Fact is still there
C11_Witness ==
    /\ resp.ep = "/import" /\ resp.status = 200
    /\ resp.accepted = 1 /\ resp.skipped = 1
    /\ Cardinality(croutons) = 2
    /\ "008_outbox" \in applied
    /\ Cardinality({e \in outbox : e.event_type = "factlet.insert"}) = 2

\* the content hashes of the records of a well-formed batch
HashesOf(body) == {SourceHash(RecordAt(body, i)) : i \in 1 .. Len(Records(body))}

\* some line of the batch occurs twice
HasRepeatedLine(body) ==
    \E i, j \in 1 .. Len(Records(body)) : i # j /\ RecordAt(body, i) = RecordAt(body, j)

\* records of the batch share a natural id only when they are the same line,
\* and no stored Fact holds a natural id of the batch
NaturalIdsFreeButRepeats(db, body) ==
    /\ \A i, j \in 1 .. Len(Records(body)) :
         (RecordAt(body, i).crouton_id # NULL
            /\ RecordAt(body, i).crouton_id = RecordAt(body, j).crouton_id)
            => RecordAt(body, i) = RecordAt(body, j)
    /\ \A i \in 1 .. Len(Records(body)) :
         RecordAt(body, i).crouton_id # NULL
            => \A x \in db.croutons : x.crouton_id # RecordAt(body, i).crouton_id

Absorbed(db, body) ==
    {i \in 1 .. Len(Records(body)) :
        \/ \E x \in db.croutons : x.source_hash = SourceHash(RecordAt(body, i))
        \/ \E j \in 1 .. i - 1 : SourceHash(RecordAt(body, j)) = SourceHash(RecordAt(body, i))}

\* C13 (response counts of a committed POST /import): total is the number of
\* non-empty lines, accepted the number of Fact rows the request added,
\* skipped the number of records absorbed by an existing content hash, and
\* accepted + skipped = total.
C13_ResponseCounts ==
    \A body \in Bodies(CommitChunks) :
        body.isString => \A r \in {Signed(body)} : r.status = 200 =>
            /\ r.total = Len(Records(body))
            /\ r.accepted = Cardinality(r.db.croutons) - Cardinality(croutons)
            /\ r.skipped = Cardinality(Absorbed(CurrentDb, body))
            /\ r.accepted + r.skipped = r.total

\* a batch of two new records has been committed
C13_Witness ==
    /\ resp.ep = "/import" /\ resp.status = 200
    /\ resp.accepted = 2 /\ resp.skipped = 0 /\ resp.total = 2
    /\ Cardinality(croutons) = 2

\* C14 (embedded triple persistence): after a committed POST /import, every
\* record of the batch that carries a triple with subject, predicate and
\* object has a triples row with them, whether its Fact was inserted or
\* skipped as a duplicate.
C14_TriplePersisted ==
    \A body \in Bodies(CommitChunks) :
        WellFormedBatch(body) => \A r \in {Signed(body)} : r.status = 200 =>
            \A i \in 1 .. Len(Records(body)) :
                LET t == RecordAt(body, i).triple IN
                (t.present /\ t.subject # NULL /\ t.predicate # NULL /\ t.object # NULL)
                    => \E x \in r.db.triples :
                          SameSPO(x, t.subject, t.predicate, t.object)

\* a record carrying a full triple has been skipped as a duplicate, and a
\* record carrying one has been inserted: the triples row is there
C14_Witness ==
    /\ resp.ep = "/import" /\ resp.status = 200
    /\ resp.accepted = 0 /\ resp.skipped = 1 /\ resp.total = 1
    /\ \E c \in croutons : c.source_hash = SourceHash(O2)
    /\ croutons # {} /\ \A c \in croutons : c.triple = T_AB
    /\ \E x \in triples : SameSPO(x, T_AB.subject, T_AB.predicate, T_AB.object)

\* a record with a source reference and no body text
O7 == Obj(<<"c3">>, <<"u1">>, NULL, NoTriple)

\* every non-empty line of the body is a JSON object
AllObjects(body) ==
    /\ body.isString
    /\ Len(Records(body)) > 0
    /\ \A i \in 1 .. Len(Records(body)) :
         Len(Records(body)[i]) = 1 /\ Records(body)[i][1].kind = "obj"

LacksRequired(obj) == obj.source_url = NULL \/ obj.text = NULL

\* C15 (required fields): a signed batch with a record that lacks source_url
\* or lacks text is rejected with 400 and rolled back, and no Fact without
\* both fields is stored.
C15_RequiredFields ==
    /\ \A body \in Bodies(ImportChunks \cup {O7}) :
         (AllObjects(body) /\ \E i \in 1 .. Len(Records(body)) :
                                  LacksRequired(RecordAt(body, i)))
            => /\ Signed(body).status \in {400, 500}
               /\ Tables(Signed(body).db) = Tables(CurrentDb)
    /\ \A c \in croutons : c.source_hash # NULL => (c.source_url # NULL /\ c.text # NULL)

\* ---- C35 ----
HashAt(body, i) == SourceHash(RecordAt(body, i))

\* record i has the crouton_id of a stored Fact, or of an earlier record of the
\* batch, whose content hash is another
CollidesById(body, i) ==
    /\ RecordAt(body, i).crouton_id # NULL
    /\ \/ \E x \in croutons : /\ x.crouton_id = RecordAt(body, i).crouton_id
                              /\ x.source_hash # HashAt(body, i)
       \/ \E j \in 1 .. i - 1 : /\ RecordAt(body, j).crouton_id = RecordAt(body, i).crouton_id
                                /\ HashAt(body, j) # HashAt(body, i)

\* C35 as stated: a batch with a record whose crouton_id is held under another
\* content hash ends with 500 import_failed and leaves the store as it was
C35_AsStated ==
    \A body \in Bodies(CollideChunks) :
        (WellFormedBatch(body) /\ \E i \in 1 .. Len(Records(body)) : CollidesById(body, i)) =>
            \A r \in {Signed(body)} :
                /\ r.status = 500 /\ r.error = "import_failed"
                /\ Tables(r.db) = Tables(CurrentDb)

\* no stored Fact and no earlier record of the batch has the content hash of
\* record i
FreshHash(body, i) ==
    /\ \A x \in croutons : x.source_hash # HashAt(body, i)
    /\ \A j \in 1 .. i - 1 : HashAt(body, j) # HashAt(body, i)

\* the crouton_id of record i is held by a stored Fact or by an earlier record
\* of the batch that was not a duplicate
HoldsId(body, i) ==
    /\ RecordAt(body, i).crouton_id # NULL
    /\ \/ \E x \in croutons : x.crouton_id = RecordAt(body, i).crouton_id
       \/ \E j \in 1 .. i - 1 : /\ RecordAt(body, j).crouton_id = RecordAt(body, i).crouton_id
                                /\ FreshHash(body, j)

\* C35: a batch with a record whose content hash is new and whose crouton_id
\* is held ends with 500 import_failed; the whole batch is rolled back and the
\* stored rows, the holder of the crouton_id among them, are unchanged
C35_IdCollisionAborts ==
    \A body \in Bodies(CollideChunks) :
        (WellFormedBatch(body) /\ \E i \in 1 .. Len(Records(body)) :
                                     FreshHash(body, i) /\ HoldsId(body, i)) =>
            \A r \in {Signed(body)} :
                /\ r.status = 500 /\ r.error = "import_failed"
                /\ Tables(r.db) = Tables(CurrentDb)

\* the second record of a batch collided with a stored Fact or with the first
C35_Witness ==
    /\ resp.ep = "/import" /\ resp.status = 500 /\ resp.error = "import_failed"
    /\ resp.parsed = 2
    /\ croutons # {}

----------------------------------------------------------------------------
(* Properties of the content hasher, checked under SpecHash *)

\* the same source_url, the same text and the same embedded triple
SameContent(a, b) ==
    /\ a.source_url = b.source_url
    /\ a.text = b.text
    /\ a.triple.present = b.triple.present
    /\ a.triple.subject = b.triple.subject
    /\ a.triple.predicate = b.triple.predicate
    /\ a.triple.object = b.triple.object

\* C16 (content hash is independent of input field ordering): two records
\* with the same source_url, text and embedded triple get the same content
\* hash whatever the order of their keys, at the top level and inside the
\* triple, so that the second is deduplicated against the first.
C16_HashOrderIndependent ==
    (hOut.state = "done" /\ SameContent(hIn[1], hIn[2])) =>
        /\ hOut.hashA = hOut.hashB
        /\ hOut.status = 200 /\ hOut.accepted = 1 /\ hOut.skipped = 1

\* ---- C34 ----
TextOf(obj) == IF obj.text = NULL THEN <<>> ELSE obj.text

\* the same source_url, the same text (absent and empty alike) and the same
\* embedded triple
SameProjection(a, b) ==
    /\ a.source_url = b.source_url
    /\ TextOf(a) = TextOf(b)
    /\ a.triple.present = b.triple.present
    /\ a.triple.subject = b.triple.subject
    /\ a.triple.predicate = b.triple.predicate
    /\ a.triple.object = b.triple.object

\* C34: two records get the same content hash only if they have the same
\* source_url, text and embedded triple; records that differ in one of the
\* three are not deduplicated against each other
C34_HashInjective ==
    (hOut.state = "done" /\ ~SameProjection(hIn[1], hIn[2])) =>
        /\ hOut.hashA # hOut.hashB
        /\ (hOut.status = 200 => hOut.skipped = 0)

----------------------------------------------------------------------------
(* Properties of POST /import served on two connections, checked under     *)
(* SpecConc                                                                *)

\* every line of the batch is a record with content and natural id of its own
OnlyRecords(lines) ==
    /\ Len(lines) > 0
    /\ \A i \in 1 .. Len(lines) : lines[i] \in {<<O2>>, <<O3>>}

LineHashes(lines) == {SourceHash(lines[i][1]) : i \in 1 .. Len(lines)}

BothAnswered == \A c \in Clients : conn[c].pc = "done" /\ OnlyRecords(conn[c].lines)

SharesFact == LineHashes(conn[1].lines) \cap LineHashes(conn[2].lines) # {}

\* C17 (concurrent ingestion of the same fact): when two /import batches of
\* well-formed records that share at least one content hash are served on two
\* connections, in any interleaving and with the shared records in any order,
\* both are answered 200 with accepted + skipped = total, one Fact row per
\* content hash is stored, and each record is accepted by one request only
\* (the other counts it as skipped).
C17_ConcurrentSameFact ==
    (BothAnswered /\ SharesFact) =>
        /\ \A c \in Clients :
             /\ conn[c].resp.status = 200
             /\ conn[c].resp.accepted + conn[c].resp.skipped = conn[c].resp.total
        /\ \A h \in LineHashes(conn[1].lines) \cup LineHashes(conn[2].lines) :
             Cardinality({x \in croutons : x.source_hash = h}) = 1
        /\ conn[1].resp.accepted + conn[2].resp.accepted =
             Cardinality(LineHashes(conn[1].lines) \cup LineHashes(conn[2].lines))

\* every event, visible or written by a transaction still open
AllEvents == outbox \cup UNION {conn[c].outbox : c \in Clients}

BornPending(e) == e.status = "pending" /\ e.attempts = 0 /\ e.error = NULL

\* whether the row that event e was captured from (payload.id is NEW.id) is
\* among facts and trips
HasRow(e, facts, trips) ==
    \/ e.event_type = "factlet.insert" /\ \E x \in facts : x.id = e.payload.id
    \/ e.event_type = "triple.insert" /\ \E x \in trips : x.id = e.payload.id

\* C18 (every outbox event is born pending): every event a capture trigger
\* wrote has status 'pending', attempts 0 and no error, and it is in the same
\* transaction as the row it was captured from: a visible event has its row
\* committed, and an event of an open transaction has its row among the
\* uncommitted rows of that transaction and not among the committed ones.
C18_BornPending ==
    /\ \A e \in AllEvents : BornPending(e)
    /\ \A e \in outbox : HasRow(e, croutons, triples)
    /\ \A c \in Clients : \A e \in conn[c].outbox :
         /\ HasRow(e, conn[c].croutons, conn[c].triples)
         /\ ~HasRow(e, croutons, triples)

\* one request committed a Fact and its event; the other wrote the Fact of O3
\* and its events, then failed on its second line: neither the row nor an
\* event of it is visible
C18_Witness ==
    \E c, d \in Clients :
        /\ conn[c].resp.status = 200 /\ conn[c].resp.accepted >= 1
        /\ \E e \in outbox : e.event_type = "factlet.insert"
        /\ conn[d].pc = "done" /\ conn[d].resp.status = 400 /\ conn[d].resp.parsed = 2
        /\ conn[d].lines[1] = <<O3>>
        /\ ~\E x \in croutons : x.crouton_id = O3.crouton_id
        /\ ~\E e \in outbox : e.event_type = "factlet.insert"
                               /\ e.payload.crouton_id = O3.crouton_id

----------------------------------------------------------------------------
(* Properties of the drain protocol, checked under SpecDrain *)

Statuses == {"pending", "processing", "done", "failed"}

\* claim, ack, nack or crash-timeout, requeue
Lifecycle ==
    {<<"pending", "processing">>, <<"processing", "done">>, <<"processing", "failed">>,
     <<"failed", "pending">>}

\* C19 (outbox status state machine): the status of every event is one of
\* pending, processing, done, failed, and a step changes the status of an
\* event only from pending to processing, from processing to done or failed,
\* or from failed to pending; so done is never left, and pending never goes
\* directly to done or failed.
C19_StatusMachine ==
    [][/\ \A f \in outbox' : f.status \in Statuses
       /\ \A e \in outbox : \A f \in outbox' :
            (f.id = e.id /\ f.status # e.status) => <<e.status, f.status>> \in Lifecycle]_vars

\* events that were claimed and then acked, nacked, and still held, at once
C19_Witness ==
    /\ \E e \in outbox : e.status = "done"
    /\ \E e \in outbox : e.status = "failed" /\ e.attempts = 1 /\ e.error # NULL
    /\ \E e \in outbox : e.status = "processing"

\* the events a step delivers to worker w
Delivered(w) == held'[w].got \ held[w].got

\* C20 (claim never double-claims): a claim delivers at most BatchSize events
\* to its worker, each of them was pending before the claim and is processing
\* after it, and none of them is held by another worker.
C20_NoDoubleClaim ==
    [][\A w \in Workers :
         /\ Cardinality(Delivered(w)) <= BatchSize
         /\ \A id \in Delivered(w) :
              /\ \E e \in outbox : e.id = id /\ e.status = "pending"
              /\ \E e \in outbox' : e.id = id /\ e.status = "processing"
              /\ \A v \in Workers \ {w} : id \notin held'[v].got]_vars

\* two claims in flight at once, each with rows of its own locked, while an
\* earlier claim's event is still held
C20_Witness ==
    /\ held[1].locked # {} /\ held[2].locked # {}
    /\ held[1].locked \cap held[2].locked = {}
    /\ \E w \in Workers : held[w].got # {}

\* the row of event id in a table of events
EventRow(events, id) == CHOOSE e \in events : e.id = id

\* the columns of an event that no step of the protocol writes
SameContent4(e, f) ==
    /\ f.id = e.id /\ f.event_type = e.event_type
    /\ f.payload = e.payload /\ f.occurred_at = e.occurred_at

\* a step in which worker w gives back exactly the event id
GivesBack(w, id) ==
    /\ id \in held[w].got
    /\ held'[w] = [held[w] EXCEPT !.got = @ \ {id}]

\* a nack of event id: a worker gives it back and its row is failed afterwards
NackOf(id) ==
    /\ \E w \in Workers : GivesBack(w, id)
    /\ EventRow(outbox', id).status = "failed"

\* C21 (nack effect): a nack is applied to an event in status processing; it
\* sets the status to failed, adds exactly 1 to attempts, records an error
\* that is not null, keeps id, event_type, payload and occurred_at of the
\* event, and leaves every other event as it was.
C21_NackEffect ==
    [][\A id \in {e.id : e \in outbox} :
         NackOf(id) =>
            LET e == EventRow(outbox, id)
                f == EventRow(outbox', id)
            IN  /\ e.status = "processing"
                /\ f.attempts = e.attempts + 1
                /\ f.error # NULL
                /\ SameContent4(e, f)
                /\ outbox' \ {f} = outbox \ {e}]_vars

\* an event has been nacked while another is still held by a worker and a
\* third is pending
C21_Witness ==
    /\ \E e \in outbox : e.status = "failed" /\ e.attempts = 1
                          /\ e.error = <<"apply failed">>
    /\ \E e \in outbox : e.status = "processing" /\ \E w \in Workers : e.id \in held[w].got
    /\ \E e \in outbox : e.status = "pending"

\* a step that takes some event from failed to pending
RequeueStep ==
    \E e \in outbox : e.status = "failed" /\ EventRow(outbox', e.id).status = "pending"

\* C22 (requeue effect): the requeue changes exactly the events whose status
\* is failed, and sets status pending, attempts 0 and error null on each;
\* events that are pending, processing or done are left as they are, no event
\* appears or disappears, and id, event_type, payload and occurred_at of
\* every event are unchanged.
C22_RequeueEffect ==
    [][RequeueStep =>
         /\ {f.id : f \in outbox'} = {e.id : e \in outbox}
         /\ \A e \in outbox :
              LET f == EventRow(outbox', e.id) IN
              /\ SameContent4(e, f)
              /\ e.status = "failed" =>
                    f.status = "pending" /\ f.attempts = 0 /\ f.error = NULL
              /\ e.status # "failed" => f = e
         /\ tag'.rows = Cardinality({e \in outbox : e.status = "failed"})]_vars

\* a requeue has reset two failed events, and left a done and nothing failed
C22_Witness ==
    /\ tag.command = "UPDATE" /\ tag.rows = 2
    /\ \E e \in outbox : e.status = "done"
    /\ \E e \in outbox : e.status = "pending"
    /\ ~\E e \in outbox : e.status = "failed"

\* ---- C38 ----
\* C38: after any run of the migration runner, a file is recorded in
\* schema_migrations exactly if its effects are committed, and no file was
\* applied twice
C38_BookkeepingMatchesSchema ==
    migrate.pc \in {"done", "failed"} =>
        \A f \in DOMAIN migrate.effects :
            /\ f \in migrate.schema_migrations <=> migrate.effects[f] >= 1
            /\ migrate.effects[f] <= 1

\* ---- C39 ----
\* C39: when run() has rejected, job_runs holds the row of its jobRunId with
\* status 'failed'; when it has resolved, with status 'success'
C39_OutcomeRecorded ==
    job.pc = "done" =>
        \E r \in job.job_runs :
            /\ r.job_run_id = job.jobRunId
            /\ r.status = IF job.settled = "rejected" THEN "failed" ELSE "success"

\* ---- C40 ----
\* how many of the arrival times in seq lie in (t - RATE_WINDOW, t]
InWindow(seq, t) ==
    Cardinality({k \in DOMAIN seq : t - RATE_WINDOW < seq[k] /\ seq[k] <= t})

\* C40: a request is answered 429 exactly if RATE_LIMIT requests of its client
\* that passed the check arrived in the window that ends at its arrival; a
\* request answered 429 is not recorded, any other is; so that for no client
\* and no instant more than RATE_LIMIT requests of the window pass
C40_SlidingWindow ==
    [][rate'.made = rate.made + 1 =>
         LET c == rate'.last.clientId
             t == rate'.now
             before == MapGet(rate.passed, c)
         IN  /\ rate'.last.status = 429 <=> InWindow(before, t) >= RATE_LIMIT
             /\ rate'.last.status = 429 => rate'.passed = rate.passed
             /\ rate'.last.status # 429 => rate'.passed[c] = Append(before, t)
             /\ \A d \in DOMAIN rate'.requestCounts :
                    recentRequests(rate'.requestCounts[d], t)
                        = recentRequests(MapGet(rate'.passed, d), t)
             /\ \A d \in DOMAIN rate'.passed, u \in Instants :
                    InWindow(rate'.passed[d], u) <= RATE_LIMIT]_vars

\* the first client used up its hour, was answered 429, and was admitted
\* again once the hour of its first requests had passed
C40_Witness ==
    /\ DOMAIN rate.passed = {"10.0.0.1"}
    /\ Len(rate.passed["10.0.0.1"]) = RATE_LIMIT + 1
    /\ rate.made = Headroom + 2
    /\ rate.now >= RATE_WINDOW
    /\ rate.last = [clientId |-> "10.0.0.1", status |-> 200]

\* ---- C36 ----
\* C36: every pending event has attempts = 0 and no error, and no event has
\* attempts above 1, however often it failed and was requeued
C36_AttemptsZeroOrOne ==
    \A e \in outbox :
        /\ e.attempts \in {0, 1}
        /\ e.status = "pending" => e.attempts = 0 /\ e.error = NULL

\* the last requeue took every event of the table, and one has failed again since
C36_Witness ==
    /\ outbox # {}
    /\ tag.command = "UPDATE" /\ tag.rows = Cardinality(outbox)
    /\ \E e \in outbox : e.status = "failed" /\ e.attempts = 1

\* ---- C23 ----
Is(id, status) == \E e \in outbox : e.id = id /\ e.status = status

ImportStep == croutons' # croutons \/ triples' # triples \/ outbox_seq' # outbox_seq

MadeBy(f, newCroutons, newTriples) ==
    \/ f.event_type = "factlet.insert" /\ \E c \in newCroutons : c.id = f.payload.id
    \/ f.event_type = "triple.insert" /\ \E t \in newTriples : t.id = f.payload.id

\* C24: a step of POST /import deletes no event and changes no field of an
\* existing event (status, attempts and error included); the events it adds are
\* exactly the ones the triggers made for the Fact and Triple rows it inserted,
\* one each, born pending
C24_ImportLeavesOutbox ==
    [][ImportStep =>
        /\ outbox \subseteq outbox'
        /\ \A f \in outbox' \ outbox :
              /\ f.id > outbox_seq
              /\ f.status = "pending" /\ f.attempts = 0 /\ f.error = NULL
              /\ MadeBy(f, croutons' \ croutons, triples' \ triples)
        /\ Cardinality(outbox' \ outbox)
             = Cardinality(croutons' \ croutons) + Cardinality(triples' \ triples)]_vars

\* an event delivered, an event failed, and a younger event still as it was born
C24_Witness ==
    \E e \in outbox, f \in outbox, g \in outbox :
        /\ e.status = "done"
        /\ f.status = "failed" /\ f.attempts = 1
        /\ g.id > e.id /\ g.id > f.id
        /\ g.status = "pending" /\ g.attempts = 0 /\ g.error = NULL

Flagged(r) == r.ai_readable_source = "true" \/ r.markdown_discovered = "true"

ParticipationEvents(events) == {e \in events : e.event_type = "source_participation.insert"}

Describes(e, r) ==
    /\ e.payload.crouton_id = r.crouton_id
    /\ e.payload.ai_readable_source = r.ai_readable_source
    /\ e.payload.markdown_discovered = r.markdown_discovered

\* C26: a write of a source_participation row adds one participation event
\* when ai_readable_source or markdown_discovered is true in the row as written,
\* and none when both are false or null, whatever the row held before; no
\* participation event appears otherwise
C26_FilteredEmission ==
    [][LET written == source_participation' \ source_participation
           emitted == ParticipationEvents(outbox') \ ParticipationEvents(outbox)
       IN /\ \A r \in written :
                IF Flagged(r)
                THEN Cardinality(emitted) = 1 /\ \A e \in emitted : Describes(e, r)
                ELSE emitted = {}
          /\ \A e \in emitted : \E r \in source_participation' : Flagged(r) /\ Describes(e, r)
          /\ ParticipationEvents(outbox) \subseteq ParticipationEvents(outbox')]_vars

\* a row written with ai_readable_source true and written again with false and
\* null: the one participation event is the one of the first write
C26_Witness ==
    \E r \in source_participation :
        /\ r.ai_readable_source = "false" /\ r.markdown_discovered = "null"
        /\ Cardinality(ParticipationEvents(outbox)) = 1
        /\ \A e \in ParticipationEvents(outbox) :
              /\ e.payload.crouton_id = r.crouton_id
              /\ e.payload.ai_readable_source = "true"

\* ---- C27 ----
FeedEndpoints == {"/api/import", "/v1/streams/ingest"}

\* C27: a 200 of POST /api/import or POST /v1/streams/ingest answers a body each
\* of whose non-empty lines parsed as JSON (the responses have no field that
\* reports skipped lines: the count of lines equals records_received)
C27_NoSilentPartialAccept ==
    resp.ep \in FeedEndpoints /\ resp.status = 200 => resp.parsed = resp.total

\* ---- C28 ----
Requeued(id) == Is(id, "failed") /\ Is(id, "pending")'

\* C28: no event is failed and requeued without end: from some point on, no
\* step returns the event from failed to pending
C28_BoundedRetries == \A id \in EventIds : <>[][~Requeued(id)]_vars

\* ---- C30 ----
NewIds(rows, rowsAfter) == {r.id : r \in rowsAfter} \ {r.id : r \in rows}

\* C30: in a 200 of POST /api/import, factlets_inserted is the number of
\* croutons rows the request created and triples_inserted the number of triples
\* rows it created
C30_ReportsWhatItWrote ==
    [][resp'.ep = "/api/import" /\ resp'.status = 200 =>
        /\ resp'.accepted = Cardinality(NewIds(croutons, croutons'))
        /\ resp'.skipped = Cardinality(NewIds(triples, triples'))]_vars

\* ---- C29 ----
\* C29: a response of GET /api/graph holds at most 500 nodes and at most 1000
\* links, and meta.node_count and meta.link_count are the lengths of nodes and
\* links
C29_GraphCapped ==
    graph.status = 200 =>
        /\ Cardinality(graph.nodes) <= maxNodes
        /\ Len(graph.links) <= maxLinks
        /\ graph.meta.node_count = Cardinality(graph.nodes)
        /\ graph.meta.link_count = Len(graph.links)

----------------------------------------------------------------------------
(* Error handling of POST /import, checked under SpecImport *)

\* ---- C31 ----
\* the status a line earns by itself: 413 oversized, 400 no JSON or no record
\* with source_url, 200 structurally valid
LineVerdict(line) ==
    IF LineLength(line) > MAX_LINE_BYTES THEN 413
    ELSE IF ~ParsesAsJson(line) THEN 400
    ELSE IF line[1].kind # "obj" THEN 400
    ELSE IF line[1].source_url = NULL THEN 400
    ELSE 200

InvalidLines(body) == {i \in 1 .. Len(Records(body)) : LineVerdict(Records(body)[i]) # 200}

FirstInvalid(body) == CHOOSE k \in InvalidLines(body) : \A i \in InvalidLines(body) : k <= i

\* C31: the response to a signed batch with structurally invalid lines is the
\* one of the first such line and names that line; no later line is parsed,
\* and nothing is stored
C31_FirstInvalidDecides ==
    \A body \in Bodies(ImportChunks) :
        (body.isString /\ InvalidLines(body) # {}) =>
            \A r \in {Signed(body)} :
                /\ r.status = LineVerdict(Records(body)[FirstInvalid(body)])
                /\ ErrorNamesLine(r.error)
                /\ r.parsed <= FirstInvalid(body)
                /\ Tables(r.db) = Tables(CurrentDb)

\* ---- C32 ----
\* valid JSON that is no record with a source reference
NoRecord(line) ==
    /\ LineLength(line) <= MAX_LINE_BYTES
    /\ ParsesAsJson(line)
    /\ (line[1].kind # "obj" \/ line[1].source_url = NULL)

\* C32: a signed batch whose first line is valid JSON but no record with a
\* source reference is answered 400 and rolled back (no statement reached the
\* store before that line, so nothing in the store can have failed)
C32_ValidationNot500 ==
    \A body \in Bodies(ImportChunks) :
        (body.isString /\ Len(Records(body)) > 0 /\ NoRecord(Records(body)[1])) =>
            \A r \in {Signed(body)} :
                r.status = 400 /\ Tables(r.db) = Tables(CurrentDb)

----------------------------------------------------------------------------
(* Event ids under concurrent requests, checked under SpecConc *)

\* ---- C33 ----
\* the events that become visible in a step
BecomeVisible == outbox' \ outbox

\* C33 as stated: ids are unique, and an event never becomes visible with an id
\* smaller than that of an event already visible
C33_AsStated ==
    [][/\ \A e \in AllEvents', f \in AllEvents' : e.id = f.id => e = f
       /\ \A f \in BecomeVisible : \A e \in outbox : f.id > e.id]_vars

\* C33: ids are unique among all events, visible or not, and are handed out in
\* increasing order: an event written in a step has an id above every id
\* handed out before the step, and the sequence never moves back, also when a
\* transaction rolls back
C33_UniqueInInsertOrder ==
    [][/\ \A e \in AllEvents', f \in AllEvents' : e.id = f.id => e = f
       /\ \A f \in AllEvents' \ AllEvents : outbox_seq < f.id /\ f.id <= outbox_seq'
       /\ outbox_seq <= outbox_seq']_vars

\* an event is visible while an event with a smaller id waits in a
\* transaction that is still open
C33_Witness ==
    \E c \in Clients : \E f \in conn[c].outbox : \E e \in outbox :
        conn[c].pc # "done" /\ f.id < e.id

\* ---- C37 ----
\* the positions of a statement (or of the release) in what the handler did
\* with the client of connection c
Positions(c, what) == {k \in DOMAIN wire[c] : wire[c][k] = what}

\* the handler of connection c has returned after it acquired a client
Exited(c) == conn[c].pc = "done" /\ wire[c] # <<>>

====
